---- MODULE Spec2Model ----
(***************************************************************************)
(* Model of the server-side core of Polygon (backend/app): the run state   *)
(* machine (services/run_service.py over repositories/run_repository.py)   *)
(* and wave completion (services/wave_service.py).                         *)
(*                                                                         *)
(* Every request is served by a handler coroutine; each `await` on the     *)
(* database is one atomic step of the store, and handlers of different     *)
(* requests interleave between their awaits.  A handler slot p is idle     *)
(* (pc[p] = "idle") or is between two awaits of one request; the step that *)
(* finishes a request puts its response in ret.                            *)
(***************************************************************************)
EXTENDS Integers, Sequences, FiniteSets, TLC

VARIABLES
    runs,           \* the "runs" collection: a set of run documents
    player_stats,   \* the "player_stats" collection: user -> lifetime stats
    uuid,           \* number of run ids drawn so far (uuid4 is fresh each time)
    clock,          \* datetime.utcnow() as a logical clock of stamped writes
    pc,             \* handler slot -> the await it is suspended at
    req,            \* handler slot -> the request it serves (or served last)
    loc,            \* handler slot -> local variables of the handler
    ret,            \* the response sent by the last step, if it sent one
    ended,          \* run id -> final snapshots logged by "[RUN] Ended run"
    nreq,           \* number of requests received so far
    tokens,         \* the "wave_validation_tokens" collection
    flagged_waves,  \* the "flagged_waves" collection, in insertion order
    game_saves,     \* the "game_saves" collection (unique index on user_id)
    nonce,          \* number of token strings drawn so far (secrets.token_hex)
    issued          \* the token strings that start_wave has returned to clients

vars == <<runs, player_stats, uuid, clock, pc, req, loc, ret, ended, nreq,
          tokens, flagged_waves, game_saves, nonce, issued>>

runVars == <<runs, uuid, ended>>
waveVars == <<tokens, flagged_waves, game_saves, nonce, issued>>

(***************************************************************************)
(* Bounds of the exploration.                                              *)
(***************************************************************************)
MaxReqs == 3        \* requests received in one behaviour

MaxInFlight == 2    \* requests whose handlers run at the same time
Procs == 1..MaxInFlight     \* the handler slots
Users == {"u1", "u2"}       \* registered users, the callers of every request
Owners == {"u1"}            \* the users who start runs
RunIds == 1..MaxReqs        \* the run ids a behaviour can draw

MaxLen == 3         \* the longest list given to a check called on its own

MaxSteps == 2       \* the most steps between frames given to the movement check

MaxWave == 10       \* the highest wave given to the kills check
MaxKills == 100     \* the most kills given to the kills check

MaxClock == 31      \* the clock value from which no further wait is explored

(***************************************************************************)
(* models/run.py                                                           *)
(***************************************************************************)
ACTIVE == "active"
DEAD == "dead"

\* RunProgress(): wave=0, points=0, upgrades=[], kills=0
RunProgress == [wave |-> 0, points |-> 0, upgrades |-> <<>>, kills |-> 0]

\* RunStats(): totalDamage=0, totalTimeSurvived=0
RunStats == [totalDamage |-> 0, totalTimeSurvived |-> 0]

\* Field(ge=0) on wave, points and kills: pydantic raises otherwise
ValidProgress(p) == p.wave >= 0 /\ p.points >= 0 /\ p.kills >= 0

\* Field(ge=0) on totalDamage and totalTimeSurvived
ValidStats(s) == s.totalDamage >= 0 /\ s.totalTimeSurvived >= 0

\* Run(user_id, seed, status=ACTIVE, progress, stats); last_saved_at=None is 0
Run(user, rid) ==
    [user_id |-> user, run_id |-> rid, status |-> ACTIVE,
     progress |-> RunProgress, stats |-> RunStats, last_saved_at |-> 0]

\* PlayerStats(user_id): the lifetime counters the model declares, all
\* defaulting to 0
PlayerStats ==
    [highest_wave |-> 0, total_kills |-> 0, total_damage_dealt |-> 0,
     games_played |-> 0, games_won |-> 0, total_playtime_seconds |-> 0]

\* obj.name on a model object: an attribute the model does not declare and
\* the stored document does not carry raises AttributeError
HasAttr(obj, name) == name \in DOMAIN obj

(***************************************************************************)
(* Request bodies the clients send.                                        *)
(***************************************************************************)
UpgradeIds == {"bullet_damage_1", "player_health_1"}

ProgressInputs ==
    { [wave |-> 2, points |-> 2, upgrades |-> <<"bullet_damage_1">>, kills |-> 2],
      [wave |-> 1, points |-> 0, upgrades |-> <<>>, kills |-> 1],
      [wave |-> 1, points |-> -1, upgrades |-> <<>>, kills |-> 1] }

StatsInputs ==
    { [totalDamage |-> 5, totalTimeSurvived |-> 3] }

Costs == {0, 1, 2}

Idle == [op |-> "none"]
NoLocals == [k |-> "none"]
NoResponse == [req |-> Idle]

Init ==
    /\ runs = {}
    /\ player_stats = [u \in Users |-> PlayerStats]
    /\ uuid = 0
    /\ clock = 0
    /\ pc = [p \in Procs |-> "idle"]
    /\ req = [p \in Procs |-> Idle]
    /\ loc = [p \in Procs |-> NoLocals]
    /\ ret = NoResponse
    /\ ended = [r \in RunIds |-> <<>>]
    /\ nreq = 0
    /\ tokens = {}
    /\ flagged_waves = <<>>
    /\ game_saves = {}
    /\ nonce = 0
    /\ issued = {}

(***************************************************************************)
(* repositories/run_repository.py: each operator is one atomic operation   *)
(* of the store on the collection `coll`.                                  *)
(***************************************************************************)

\* find_one({"user_id": u}): the documents the store may return
FindByUserId(coll, user) == {d \in coll : d.user_id = user}

\* find_one({"user_id": u, "status": "active"})
FindActiveByUserId(coll, user) ==
    {d \in coll : d.user_id = user /\ d.status = ACTIVE}

\* delete_one({"user_id": u}): the collections that may result (one matching
\* document is removed, whichever the store finds first)
DeleteByUserId(coll, user) ==
    IF FindByUserId(coll, user) = {} THEN {coll}
    ELSE {coll \ {d} : d \in FindByUserId(coll, user)}

\* atomic_save without the status guard in its filter
AtomicSaveFilterAnyStatus(d, rid, user) ==
    d.run_id = rid /\ d.user_id = user

\* the filter of atomic_save's update_one
AtomicSaveFilter(d, rid, user) ==
    d.run_id = rid /\ d.user_id = user /\ d.status = ACTIVE

\* the filter of mark_dead's update_one
MarkDeadFilter(d, rid, user) ==
    d.run_id = rid /\ d.user_id = user /\ d.status = ACTIVE

\* update_progress without the status guard in its filter
UpdateProgressFilterAnyStatus(d, rid, user) ==
    d.run_id = rid /\ d.user_id = user

\* the filter of update_progress's find_one_and_update
UpdateProgressFilter(d, rid, user) ==
    d.run_id = rid /\ d.user_id = user /\ d.status = ACTIVE

\* atomic_save's $set
AtomicSaveSet(d, progress, stats, now) ==
    [d EXCEPT !.progress = progress, !.stats = stats, !.last_saved_at = now]

\* mark_dead's $set
MarkDeadSet(d, progress, stats, now) ==
    [d EXCEPT !.status = DEAD, !.progress = progress, !.stats = stats,
              !.last_saved_at = now]

\* update_progress's $set of progress.upgrades and progress.points
UpdateProgressSet(d, upgrades, points, now) ==
    [d EXCEPT !.progress.upgrades = upgrades, !.progress.points = points,
              !.last_saved_at = now]

(***************************************************************************)
(* services/run_service.py                                                 *)
(***************************************************************************)

\* what a handler returns to the request `request`: `ok` is the boolean (or
\* "a run was returned"), `raised` a pydantic ValidationError, `run` the
\* returned Run if any
Response(request, ok, raised, run) ==
    [req |-> request, ok |-> ok, raised |-> raised, run |-> run]

\* the request bodies of api/runs.py with the authenticated caller
StartRunRequest(user) == [op |-> "start", user |-> user]

SaveProgressRequest(user, rid, progress, stats) ==
    [op |-> "save_progress", user |-> user, run_id |-> rid,
     progress |-> progress, stats |-> stats]

EndRunRequest(user, rid, progress, stats) ==
    [op |-> "end_run", user |-> user, run_id |-> rid,
     progress |-> progress, stats |-> stats]

AddUpgradeRequest(user, rid, upgrade_id, cost) ==
    [op |-> "add_upgrade", user |-> user, run_id |-> rid,
     upgrade_id |-> upgrade_id, cost |-> cost]

DeleteRunRequest(user) == [op |-> "delete_run", user |-> user]

\* a request arrives and is given to a free handler (handlers are
\* interchangeable: the lowest free slot takes it)
Accept(p) ==
    /\ pc[p] = "idle"
    /\ \A q \in Procs : q < p => pc[q] # "idle"
    /\ nreq < MaxReqs
    /\ nreq' = nreq + 1

Return(p, response) ==
    /\ pc' = [pc EXCEPT ![p] = "idle"]
    /\ req' = [req EXCEPT ![p] = Idle]
    /\ loc' = [loc EXCEPT ![p] = NoLocals]
    /\ ret' = response

Goto(p, label, request, locals) ==
    /\ pc' = [pc EXCEPT ![p] = label]
    /\ req' = [req EXCEPT ![p] = request]
    /\ loc' = [loc EXCEPT ![p] = locals]
    /\ ret' = NoResponse

\* start_new_run, first await: delete_by_user_id
StartDelete(p, user) ==
    /\ Accept(p)
    /\ runs' \in DeleteByUserId(runs, user)
    /\ Goto(p, "start_create", StartRunRequest(user), NoLocals)
    /\ UNCHANGED <<player_stats, uuid, clock, ended, waveVars>>

\* start_new_run, second await: run_repo.create(new_run)
StartCreate(p) ==
    /\ pc[p] = "start_create"
    /\ uuid' = uuid + 1
    /\ runs' = runs \cup {Run(req[p].user, uuid')}
    /\ Goto(p, "start_find_stats", req[p], [created |-> Run(req[p].user, uuid')])
    /\ UNCHANGED <<nreq, player_stats, clock, ended, waveVars>>

\* start_new_run, third await: player_stats_repo.find_by_user_id
StartFindStats(p) ==
    /\ pc[p] = "start_find_stats"
    /\ Goto(p, "start_update_stats", req[p],
            [created |-> loc[p].created, player_stats |-> player_stats[req[p].user]])
    /\ UNCHANGED <<nreq, runs, player_stats, uuid, clock, ended, waveVars>>

\* start_new_run, fourth await: update_by_id(games_played + 1), then return
StartUpdateStats(p) ==
    /\ pc[p] = "start_update_stats"
    /\ player_stats' = [player_stats EXCEPT ![req[p].user].games_played =
                            loc[p].player_stats.games_played + 1]
    /\ Return(p, Response(req[p], TRUE, FALSE, {loc[p].created}))
    /\ UNCHANGED <<nreq, runs, uuid, clock, ended, waveVars>>

\* the values datetime.utcnow() can have at a write: the stored datetimes
\* have millisecond precision, and a write can fall in the millisecond of
\* the write before it (0 stands for None, no time is 0)
Now == {t \in {clock, clock + 1} : t > 0}

\* update_one(...).modified_count > 0: the update matched a document and
\* the $set changed it
Modified(d, after) == after # d

\* save_progress: RunProgress/RunStats construction, then atomic_save
SaveProgress(p, user, rid, progress, stats) ==
    /\ Accept(p)
    /\ IF ~(ValidProgress(progress) /\ ValidStats(stats))
       THEN /\ Return(p, Response(SaveProgressRequest(user, rid, progress, stats), FALSE, TRUE, {}))
            /\ UNCHANGED <<runs, clock>>
       ELSE LET hit == {d \in runs : AtomicSaveFilter(d, rid, user)} IN
            IF hit = {}
            THEN /\ Return(p, Response(SaveProgressRequest(user, rid, progress, stats), FALSE, FALSE, {}))
                 /\ UNCHANGED <<runs, clock>>
            ELSE /\ clock' \in Now
                 /\ \E d \in hit :
                      LET after == AtomicSaveSet(d, progress, stats, clock') IN
                      /\ runs' = (runs \ {d}) \cup {after}
                      /\ Return(p, Response(SaveProgressRequest(user, rid, progress, stats),
                                            Modified(d, after), FALSE, {}))
    /\ UNCHANGED <<player_stats, uuid, ended, waveVars>>

\* end_run: RunProgress/RunStats construction, then mark_dead; the success
\* branch logs "[RUN] Ended run" and goes on to the lifetime stats
EndMarkDead(p, user, rid, final_progress, final_stats) ==
    /\ Accept(p)
    /\ IF ~(ValidProgress(final_progress) /\ ValidStats(final_stats))
       THEN /\ Return(p, Response(EndRunRequest(user, rid, final_progress,
                                                   final_stats), FALSE, TRUE, {}))
            /\ UNCHANGED <<runs, clock, ended>>
       ELSE LET hit == {d \in runs : MarkDeadFilter(d, rid, user)} IN
            IF hit = {}
            THEN /\ Return(p, Response(EndRunRequest(user, rid, final_progress,
                                                        final_stats), FALSE, FALSE, {}))
                 /\ UNCHANGED <<runs, clock, ended>>
            ELSE /\ clock' = clock + 1
                 /\ \E d \in hit :
                        runs' = (runs \ {d}) \cup
                            {MarkDeadSet(d, final_progress, final_stats, clock')}
                 /\ ended' = [ended EXCEPT ![rid] = Append(@,
                        [progress |-> final_progress, stats |-> final_stats])]
                 /\ Goto(p, "end_find_stats",
                         EndRunRequest(user, rid, final_progress, final_stats),
                         NoLocals)
    /\ UNCHANGED <<player_stats, uuid, waveVars>>

\* _update_player_stats_on_death: find_by_user_id finds the stats that
\* registration created, and building the update reads
\* player_stats.highest_wave_ever.  PlayerStats declares highest_wave and no
\* document has a highest_wave_ever, so the read raises AttributeError:
\* update_by_id is not reached and end_run does not return.
EndFindStats(p) ==
    /\ pc[p] = "end_find_stats"
    /\ ~HasAttr(player_stats[req[p].user], "highest_wave_ever")
    /\ Return(p, Response(req[p], FALSE, TRUE, {}))
    /\ UNCHANGED <<nreq, runs, player_stats, uuid, clock, ended, waveVars>>

\* add_upgrade without its check of the points against the cost
AddUpgradeRejectsWrongRunOnly(run, rid, cost) ==
    run.run_id # rid

\* add_upgrade's two early returns on the run it read
AddUpgradeRejects(run, rid, cost) ==
    run.run_id # rid \/ run.progress.points < cost

\* new_upgrades = run.progress.upgrades + [upgrade_id]
NewUpgrades(run, upgrade_id) == Append(run.progress.upgrades, upgrade_id)

\* new_points = run.progress.points - cost
NewPoints(run, cost) == run.progress.points - cost

\* add_upgrade, first await: find_active_by_user_id, then the checks
AddFind(p, user, rid, upgrade_id, cost) ==
    /\ Accept(p)
    /\ IF FindActiveByUserId(runs, user) = {}
       THEN Return(p, Response(AddUpgradeRequest(user, rid, upgrade_id, cost),
                               FALSE, FALSE, {}))
       ELSE \E run \in FindActiveByUserId(runs, user) :
            IF AddUpgradeRejects(run, rid, cost)
            THEN Return(p, Response(AddUpgradeRequest(user, rid, upgrade_id, cost),
                                    FALSE, FALSE, {}))
            ELSE Goto(p, "add_update",
                      AddUpgradeRequest(user, rid, upgrade_id, cost),
                      [run |-> run,
                       new_upgrades |-> NewUpgrades(run, upgrade_id),
                       new_points |-> NewPoints(run, cost)])
    /\ UNCHANGED <<runs, player_stats, uuid, clock, ended, waveVars>>

\* add_upgrade, second await: update_progress(upgrades=, points=)
AddUpdate(p) ==
    /\ pc[p] = "add_update"
    /\ LET hit == {d \in runs :
                    UpdateProgressFilter(d, req[p].run_id, req[p].user)} IN
       IF hit = {}
       THEN /\ Return(p, Response(req[p], FALSE, FALSE, {}))
            /\ UNCHANGED <<runs, clock>>
       ELSE /\ clock' = clock + 1
            /\ \E d \in hit :
                 LET after == UpdateProgressSet(d, loc[p].new_upgrades,
                                                loc[p].new_points, clock') IN
                 /\ runs' = (runs \ {d}) \cup {after}
                 /\ Return(p, Response(req[p], TRUE, FALSE, {after}))
    /\ UNCHANGED <<nreq, player_stats, uuid, ended, waveVars>>

\* DELETE /api/runs/: delete_by_user_id, whatever the status of the run; the
\* response says whether a document was deleted
DeleteRun(p, user) ==
    /\ Accept(p)
    /\ runs' \in DeleteByUserId(runs, user)
    /\ Return(p, Response(DeleteRunRequest(user), runs' # runs, FALSE, {}))
    /\ UNCHANGED <<player_stats, uuid, clock, ended, waveVars>>

NextRun ==
    \E p \in Procs :
        \/ \E u \in Owners : StartDelete(p, u)
        \/ StartCreate(p)
        \/ StartFindStats(p)
        \/ StartUpdateStats(p)
        \/ \E u \in Users, r \in RunIds, g \in ProgressInputs, s \in StatsInputs :
                SaveProgress(p, u, r, g, s)
        \/ \E u \in Users, r \in RunIds, g \in ProgressInputs, s \in StatsInputs :
                EndMarkDead(p, u, r, g, s)
        \/ EndFindStats(p)
        \/ \E u \in Users, r \in RunIds, i \in UpgradeIds, c \in Costs :
                AddFind(p, u, r, i, c)
        \/ AddUpdate(p)
        \/ \E u \in Users : DeleteRun(p, u)

SpecRun == Init /\ [][NextRun]_vars

(***************************************************************************)
(* The run state machine: properties.                                      *)
(***************************************************************************)

\* the step is the first await of a start_new_run (its delete_one)
IsStartDelete == \E p \in Procs : pc[p] = "idle" /\ pc'[p] = "start_create"

\* the documents of the run with the id
RunDocs(rid) == {d \in runs : d.run_id = rid}

\* the step is a request to the delete endpoint of the runs
IsDeleteRun ==
    \E p \in Procs : pc[p] = "idle" /\ pc'[p] = "idle" /\ ret'.req.op = "delete_run"

\* C3, as claimed: a dead run document never changes: every step keeps each
\* dead document exactly as it is (status, progress, stats, last_saved_at),
\* except the delete of start_new_run, which removes it.
C3_OnlyStartDeletes ==
    [][\A d \in runs : d.status = DEAD =>
            \/ d \in runs'
            \/ IsStartDelete /\ runs' = runs \ {d}]_vars

\* C3, amended: a dead run document never changes: every step keeps each dead
\* document exactly as it is (status, progress, stats, last_saved_at), except
\* the delete of start_new_run and the delete endpoint, which remove it.
C3_DeadRunIsReadOnly ==
    [][\A d \in runs : d.status = DEAD =>
            \/ d \in runs'
            \/ (IsStartDelete \/ IsDeleteRun) /\ runs' = runs \ {d}]_vars

\* a dead run on which its owner's save_progress has just been refused
C3_Witness ==
    /\ ret.req.op = "save_progress"
    /\ ~ret.ok /\ ~ret.raised
    /\ \E d \in runs : /\ d.status = DEAD
                        /\ d.run_id = ret.req.run_id
                        /\ d.user_id = ret.req.user

\* C4: end_run on an active run of the caller kills it, stores the given
\* final progress and stats and, when it ends, returns true; end_run on a run
\* that is already dead returns false and changes neither the runs collection
\* nor the player stats.
C4_EndRunTwice ==
    [][/\ \A p \in Procs, u \in Users, r \in RunIds,
            g \in ProgressInputs, s \in StatsInputs :
           (EndMarkDead(p, u, r, g, s) /\ ValidProgress(g) /\ ValidStats(s)) =>
              IF \E d \in RunDocs(r) : d.user_id = u /\ d.status = ACTIVE
              THEN /\ pc'[p] = "end_find_stats"
                   /\ \E e \in runs' : /\ e.run_id = r
                                        /\ e.status = DEAD
                                        /\ e.progress = g
                                        /\ e.stats = s
              ELSE /\ ret' = Response(EndRunRequest(u, r, g, s), FALSE, FALSE, {})
                   /\ pc'[p] = "idle"
                   /\ runs' = runs
                   /\ player_stats' = player_stats
       /\ \A p \in Procs :
           (pc[p] = "end_find_stats" /\ pc'[p] = "idle") =>
              ret' = Response(req[p], TRUE, FALSE, {})
      ]_vars

\* C5: from the moment end_run's mark_dead has succeeded on a run, the stored
\* progress and stats of that run are the final snapshot of that end_run, in
\* every later state in which the document exists.
C5_NoWriteAfterDeath ==
    \A r \in RunIds : ended[r] # <<>> =>
        \A d \in RunDocs(r) : /\ d.status = DEAD
                               /\ d.progress = ended[r][1].progress
                               /\ d.stats = ended[r][1].stats

\* an add_upgrade read the run while it was active, end_run then killed the
\* run, and the add_upgrade's write of other values is still to come
C5_Witness ==
    \E p \in Procs :
        /\ pc[p] = "add_update"
        /\ ended[req[p].run_id] # <<>>
        /\ \E d \in RunDocs(req[p].run_id) :
                /\ d.user_id = req[p].user
                /\ d.progress.upgrades # loc[p].new_upgrades

\* C6: the runs collection holds at most one run document for each user.
C6_OneRunPerUser ==
    \A u \in Users : Cardinality(FindByUserId(runs, u)) <= 1

\* C7: the stored progress.wave of a run never decreases from one state to
\* the next.
C7_WaveNeverDecreases ==
    [][\A d \in runs, e \in runs' :
         d.run_id = e.run_id => e.progress.wave >= d.progress.wave]_vars

IsPrefix(a, b) == Len(a) <= Len(b) /\ SubSeq(b, 1, Len(a)) = a

\* C8: the stored progress.upgrades of a run only grows: the list stored
\* before a step is a prefix of the list stored after it.
C8_UpgradesOnlyGrow ==
    [][\A d \in runs, e \in runs' :
         d.run_id = e.run_id =>
            IsPrefix(d.progress.upgrades, e.progress.upgrades)]_vars

\* C9: every stored run has progress.points >= 0.
C9_PointsNeverNegative ==
    \A d \in runs : d.progress.points >= 0

\* an add_upgrade with a positive cost has just spent all the run's points
C9_Witness ==
    /\ ret.req.op = "add_upgrade"
    /\ ret.ok
    /\ ret.req.cost > 0
    /\ \E d \in ret.run : d \in runs /\ d.progress.points = 0

\* C10: the write of a successful add_upgrade leaves the run with the points
\* stored immediately before the write minus cost, and the upgrades stored
\* immediately before the write with upgradeId appended.
C10_AddUpgradeIsAtomic ==
    [][\A p \in Procs :
         (pc[p] = "add_update" /\ pc'[p] = "idle" /\ ret'.ok) =>
            \E d \in RunDocs(req[p].run_id) : \E e \in ret'.run :
                /\ e.progress.points = d.progress.points - req[p].cost
                /\ e.progress.upgrades =
                        Append(d.progress.upgrades, req[p].upgrade_id)]_vars

\* C11: an add_upgrade that can find no active run of the caller with the
\* given run id and at least `cost` points returns None at its checks: it
\* writes nothing (no run document changes, its points and upgrades included)
\* and never reaches update_progress.
C11_AddUpgradeRefused ==
    [][\A p \in Procs, u \in Users, r \in RunIds, i \in UpgradeIds, c \in Costs :
         (/\ AddFind(p, u, r, i, c)
          /\ \A d \in FindActiveByUserId(runs, u) :
                d.run_id # r \/ d.progress.points < c)
            => /\ ret' = Response(AddUpgradeRequest(u, r, i, c), FALSE, FALSE, {})
               /\ pc'[p] = "idle"
               /\ runs' = runs
               /\ player_stats' = player_stats]_vars

\* an add_upgrade has just been refused on the caller's active run of the
\* given id because the cost exceeds the run's points
C11_Witness ==
    /\ ret.req.op = "add_upgrade"
    /\ ~ret.ok /\ ~ret.raised
    /\ \E d \in runs : /\ d.user_id = ret.req.user
                        /\ d.run_id = ret.req.run_id
                        /\ d.status = ACTIVE
                        /\ d.progress.points < ret.req.cost
                        /\ d.progress.upgrades # <<>>

\* C12: a save_progress with values the Run model accepts returns true
\* exactly when a run with the given run id, owned by the caller and active,
\* exists, and then that run's progress and stats are the supplied values; in
\* every other case it returns false and no run document changes.
C12_SaveProgressResult ==
    [][\A p \in Procs, u \in Users, r \in RunIds,
          g \in ProgressInputs, s \in StatsInputs :
         (SaveProgress(p, u, r, g, s) /\ ValidProgress(g) /\ ValidStats(s)) =>
            IF \E d \in runs : d.run_id = r /\ d.user_id = u /\ d.status = ACTIVE
            THEN /\ ret' = Response(SaveProgressRequest(u, r, g, s), TRUE, FALSE, {})
                 /\ \E e \in runs' : /\ e.run_id = r /\ e.user_id = u
                                      /\ e.status = ACTIVE
                                      /\ e.progress = g /\ e.stats = s
            ELSE /\ ret' = Response(SaveProgressRequest(u, r, g, s), FALSE, FALSE, {})
                 /\ runs' = runs]_vars

\* C13: start always succeeds and replaces whatever run the user had: its
\* delete leaves no run document that the user had before (active or dead),
\* its insert adds a document with a run id no stored run has, status active,
\* progress wave=0, points=0, kills=0, upgrades empty and stats zero, and it
\* returns that document.
C13_StartReplacesRun ==
    [][\A p \in Procs :
         /\ \A u \in Users :
              StartDelete(p, u) => FindByUserId(runs, u) \cap runs' = {}
         /\ StartCreate(p) =>
              \E d \in runs' \ runs :
                  /\ runs' = runs \cup {d}
                  /\ d.user_id = req[p].user
                  /\ \A e \in runs : e.run_id # d.run_id
                  /\ d.status = ACTIVE
                  /\ d.progress = [wave |-> 0, points |-> 0, upgrades |-> <<>>,
                                   kills |-> 0]
                  /\ d.stats = [totalDamage |-> 0, totalTimeSurvived |-> 0]
                  /\ loc'[p].created = d
         /\ (pc[p] = "start_update_stats" /\ pc'[p] = "idle") =>
              ret' = Response(req[p], TRUE, FALSE, {loc[p].created})]_vars

\* C14: of the end_run requests on one run exactly one returns true, and the
\* lifetime player stats are incremented from its final snapshot exactly
\* once: an end_run on a run that an end_run has already killed returns
\* false and leaves the player stats alone, and the end_run whose mark_dead
\* killed the run returns true with the caller's total kills, total damage
\* and total playtime raised by the snapshot's kills, damage and time.
C14_EndRunOnce ==
    [][\A p \in Procs :
         /\ \A u \in Users, r \in RunIds, g \in ProgressInputs, s \in StatsInputs :
              (/\ EndMarkDead(p, u, r, g, s)
               /\ ValidProgress(g) /\ ValidStats(s)
               /\ ended[r] # <<>>)
                 => /\ ret' = Response(EndRunRequest(u, r, g, s), FALSE, FALSE, {})
                    /\ pc'[p] = "idle"
                    /\ player_stats' = player_stats
         /\ (pc[p] = "end_find_stats" /\ pc'[p] = "idle") =>
              /\ ret' = Response(req[p], TRUE, FALSE, {})
              /\ player_stats' = [player_stats EXCEPT ![req[p].user] =
                    [@ EXCEPT
                       !.total_kills = @ + req[p].progress.kills,
                       !.total_damage_dealt = @ + req[p].stats.totalDamage,
                       !.total_playtime_seconds =
                            @ + req[p].stats.totalTimeSurvived]]]_vars

\* C38: after start has replaced a user's run, every saveProgress, endRun or
\* addUpgrade call that quotes the previous run id is refused and changes
\* nothing: once the user has a run with a later id, each step of a call of
\* that user that quotes the earlier id ends the call without success and
\* without a run in the answer, and leaves every run document as it is.
C38_PreviousRunIdRefused ==
    [][\A p \in Procs :
         LET request == IF pc'[p] = "idle" THEN ret'.req ELSE req'[p]
         IN  (/\ pc'[p] # pc[p] \/ (pc[p] = "idle" /\ nreq' # nreq)
              /\ request.op \in {"save_progress", "end_run", "add_upgrade"}
              /\ \E d \in runs : /\ d.user_id = request.user
                                 /\ d.run_id > request.run_id)
                => /\ runs' = runs
                   /\ pc'[p] = "idle"
                   /\ ~ret'.ok
                   /\ ret'.run = {}
      ]_vars

\* C39: the lifetime player stats lose no update: no step lowers a user's
\* total_kills, and once every request has been answered games_played counts
\* every start of the user who plays (each start has created one run).
C39_NoLostUpdate ==
    [][/\ \A u \in Users :
            player_stats'[u].total_kills >= player_stats[u].total_kills
       /\ (\A p \in Procs : pc'[p] = "idle") =>
            player_stats'["u1"].games_played = uuid'
      ]_vars

(***************************************************************************)
(* Wave validation: enemy data (core/enemy_data.py).                       *)
(***************************************************************************)

ENEMY_BASE_HEALTH ==
    [triangle |-> 70, square |-> 110, pentagon |-> 250, hexagon |-> 575,
     shooter |-> 45]

EnemyTypes == DOMAIN ENEMY_BASE_HEALTH

\* floor(exp(wave / 6) * 10^6) for wave = 0..7, indexed from 1
WaveMultiplierTable ==
    <<1000000, 1181360, 1395612, 1648721, 1947734, 2300975, 2718281, 3211270>>

MultiplierScale == 1000000

\* math.exp(wave / 6), scaled by MultiplierScale
get_wave_multiplier(wave) == WaveMultiplierTable[wave + 1]

\* int(base_health * multiplier); an unknown enemy type has base health 70
get_enemy_health(enemy_type, wave) ==
    LET base_health == IF enemy_type \in EnemyTypes
                       THEN ENEMY_BASE_HEALTH[enemy_type] ELSE 70
        multiplier == get_wave_multiplier(wave - 1)
    IN  (base_health * multiplier) \div MultiplierScale

\* int(math.pow(wave, 1.2)) for the waves from 8 on that the model uses
FloorPow12 == [wave \in 8..10 |-> CASE wave = 8 -> 12 [] wave = 9 -> 13
                                     [] wave = 10 -> 15]

get_expected_enemy_count(wave) ==
    IF wave = 1 \/ wave = 3 THEN 30
    ELSE IF wave = 2 THEN 35
    ELSE IF wave = 4 \/ wave = 5 THEN 40
    ELSE IF wave = 6 THEN 50
    ELSE IF wave = 7 THEN 45
    ELSE 45 + wave * 2 + FloorPow12[wave]

\* the damage that killing one enemy of the type takes; a hexagon also has a
\* shield of int(enemy_health * 0.65)
DamageToKill(enemy_type, wave) ==
    LET enemy_health == get_enemy_health(enemy_type, wave)
        shield_health == (enemy_health * 65) \div 100
    IN  IF enemy_type = "hexagon" THEN enemy_health + shield_health
        ELSE enemy_health

\* enemy_deaths is the submitted list of deaths; the code counts the deaths by
\* type and sums health * count over the types, which is the sum over deaths
RECURSIVE calculate_minimum_damage_required(_, _)
calculate_minimum_damage_required(wave, enemy_deaths) ==
    IF enemy_deaths = <<>> THEN 0
    ELSE DamageToKill(Head(enemy_deaths).type, wave)
         + calculate_minimum_damage_required(wave, Tail(enemy_deaths))

(***************************************************************************)
(* Wave validation: the checks of complete_wave (services/wave_service.py).*)
(* The code computes the thresholds in floating point; the inequalities    *)
(* below are the same comparisons over the integers.                       *)
(***************************************************************************)

\* deviation_percent is a float: the record stands for 100 * num / den, and,
\* where root is TRUE, for 100 * (sqrt(num) - den) / den
Percent(num, den) == [root |-> FALSE, num |-> num, den |-> den]
RootPercent(num, den) == [root |-> TRUE, num |-> num, den |-> den]

\* the deviation_percent of a flag built without one: the default None
NoPercent == Percent(0, 0)

FlagReason(category, severity, description, deviation_percent) ==
    [category |-> category, severity |-> severity, description |-> description,
     deviation_percent |-> deviation_percent]

\* a list comprehension over the flags that keeps none of them
SelectNone(flags, severities) == <<>>

RECURSIVE SelectSeq2(_, _)
\* the list comprehension [f for f in flags if f.severity in severities]
SelectSeq2(flags, severities) ==
    IF flags = <<>> THEN <<>>
    ELSE IF Head(flags).severity \in severities
         THEN <<Head(flags)>> \o SelectSeq2(Tail(flags), severities)
         ELSE SelectSeq2(Tail(flags), severities)

Range(s) == {s[i] : i \in DOMAIN s}

\* the upgrades check stopping at the first unauthorized entry
ValidateUpgradesFirstOnly(upgrades_used, valid_upgrades) ==
    IF \A i \in DOMAIN upgrades_used : upgrades_used[i] \in valid_upgrades
    THEN <<>>
    ELSE LET i == CHOOSE i \in DOMAIN upgrades_used :
                    /\ upgrades_used[i] \notin valid_upgrades
                    /\ \A j \in 1..(i - 1) : upgrades_used[j] \in valid_upgrades
         IN  <<FlagReason("upgrades", "high",
                   "Unauthorized upgrade used: " \o upgrades_used[i], NoPercent)>>

\* one flag for every used upgrade that is neither allowed nor offered
RECURSIVE ValidateUpgrades(_, _)
ValidateUpgrades(upgrades_used, valid_upgrades) ==
    IF upgrades_used = <<>> THEN <<>>
    ELSE (IF Head(upgrades_used) \notin valid_upgrades
          THEN <<FlagReason("upgrades", "high",
                     "Unauthorized upgrade used: " \o Head(upgrades_used),
                     NoPercent)>>
          ELSE <<>>)
         \o ValidateUpgrades(Tail(upgrades_used), valid_upgrades)

\* _validate_damage divides by min_damage to compute the deviation of a low
\* damage: with no enemy death min_damage is 0, a negative reported damage is
\* below min_damage * 0.8, and the division raises ZeroDivisionError
DamageDeviationRaises(reported_damage, kills, enemy_deaths, wave) ==
    LET min_damage == calculate_minimum_damage_required(wave, enemy_deaths)
    IN  10 * reported_damage < 8 * min_damage /\ min_damage = 0

\* the damage check with a deviation of 50 or more, not only above 50, high
ValidateDamageHighFromHalf(reported_damage, kills, enemy_deaths, wave) ==
    LET min_damage == calculate_minimum_damage_required(wave, enemy_deaths)
    IN  IF 10 * reported_damage < 8 * min_damage
        THEN <<FlagReason("damage",
                   IF 100 * (min_damage - reported_damage) >= 50 * min_damage
                   THEN "high" ELSE "medium",
                   "Damage dealt is suspiciously low for kills reported",
                   Percent(min_damage - reported_damage, min_damage))>>
        ELSE <<>>

\* reported_damage < min_damage * 0.8 flags; the deviation
\* (min_damage - reported_damage) / min_damage * 100 above 50 makes it high
_validate_damage(reported_damage, kills, enemy_deaths, wave) ==
    LET min_damage == calculate_minimum_damage_required(wave, enemy_deaths)
    IN  IF 10 * reported_damage < 8 * min_damage
        THEN <<FlagReason("damage",
                   IF 100 * (min_damage - reported_damage) > 50 * min_damage
                   THEN "high" ELSE "medium",
                   "Damage dealt is suspiciously low for kills reported",
                   Percent(min_damage - reported_damage, min_damage))>>
        ELSE <<>>

\* the step check with every flag of severity high
FrameFlagHighOnly(prev_frame, curr_frame, player_speed) ==
    LET dx == curr_frame.player.x - prev_frame.player.x
        dy == curr_frame.player.y - prev_frame.player.y
        ms == curr_frame.timestamp - prev_frame.timestamp
        distance2 == dx * dx + dy * dy
        max100 == (player_speed \div 100) * ms * 11
    IN  IF ms <= 0 THEN <<>>
        ELSE IF 10000 * distance2 > max100 * max100
        THEN <<FlagReason("movement", "high",
                   "Player moved faster than possible (frame "
                       \o ToString(curr_frame.frame) \o ")",
                   RootPercent(10000 * distance2, max100))>>
        ELSE <<>>

\* the step check flagging no step
FrameFlagNever(prev_frame, curr_frame, player_speed) == <<>>

\* the flag of the step from frame i - 1 to frame i, if any: the distance is
\* sqrt(dx^2 + dy^2), the time is in milliseconds, and max_distance is
\* player_speed * (ms / 1000) * 1.10; distance > max_distance flags, and a
\* deviation (distance - max_distance) / max_distance * 100 above 100, that
\* is distance > 2 * max_distance, makes it critical.  max100 is
\* 100 * max_distance: every token carries the speed 200 that start_wave
\* writes, a multiple of 100, and the squares stay within 32 bits
FrameFlag(prev_frame, curr_frame, player_speed) ==
    LET dx == curr_frame.player.x - prev_frame.player.x
        dy == curr_frame.player.y - prev_frame.player.y
        ms == curr_frame.timestamp - prev_frame.timestamp
        distance2 == dx * dx + dy * dy
        max100 == (player_speed \div 100) * ms * 11
    IN  IF ms <= 0 THEN <<>>
        ELSE IF 10000 * distance2 > max100 * max100
        THEN <<FlagReason("movement",
                   IF 10000 * distance2 > 4 * max100 * max100
                   THEN "critical" ELSE "high",
                   "Player moved faster than possible (frame "
                       \o ToString(curr_frame.frame) \o ")",
                   RootPercent(10000 * distance2, max100))>>
        ELSE <<>>

RECURSIVE MovementFlags(_, _, _)
\* the flags of the steps that end at the frames i..len(frame_samples)
MovementFlags(frame_samples, i, player_speed) ==
    IF i > Len(frame_samples) THEN <<>>
    ELSE FrameFlag(frame_samples[i - 1], frame_samples[i], player_speed)
         \o MovementFlags(frame_samples, i + 1, player_speed)

_validate_movement(frame_samples, player_speed) ==
    IF Len(frame_samples) < 2 THEN <<>>
    ELSE MovementFlags(frame_samples, 2, player_speed)

\* the kills check flagging from expected_count * 1.2 on
ValidateKillsFromThreshold(kills, wave) ==
    LET expected_count == get_expected_enemy_count(wave)
    IN  IF 10 * kills >= 12 * expected_count
        THEN <<FlagReason("kills", "high",
                   "Kill count exceeds expected enemy spawns",
                   Percent(kills - expected_count, expected_count))>>
        ELSE <<>>

\* kills > expected_count * 1.2 flags
_validate_kills(kills, wave) ==
    LET expected_count == get_expected_enemy_count(wave)
    IN  IF 10 * kills > 12 * expected_count
        THEN <<FlagReason("kills", "high",
                   "Kill count exceeds expected enemy spawns",
                   Percent(kills - expected_count, expected_count))>>
        ELSE <<>>

(***************************************************************************)
(* Upgrades (core/upgrade_data.py) and the roll of start_wave.             *)
(***************************************************************************)

None == "None"

\* four of the entries of the catalog, with the fields that eligibility and
\* the roll read
UPGRADES ==
    [bullet_damage_1 |->
        [id |-> "bullet_damage_1", rarity |-> "common", attackType |-> "bullet",
         stackable |-> TRUE, maxStacks |-> 99999, cost |-> 2,
         dependentOn |-> <<>>, dependencyCount |-> 1, replaces |-> <<>>],
     laser_damage_1 |->
        [id |-> "laser_damage_1", rarity |-> "uncommon", attackType |-> "laser",
         stackable |-> TRUE, maxStacks |-> 99, cost |-> 40,
         dependentOn |-> <<>>, dependencyCount |-> 1, replaces |-> <<>>],
     explosion_radius |->
        [id |-> "explosion_radius", rarity |-> "uncommon",
         attackType |-> "bullet", stackable |-> TRUE, maxStacks |-> 5,
         cost |-> 6, dependentOn |-> <<"explosive_bullets">>,
         dependencyCount |-> 1, replaces |-> <<>>],
     explosive_bullets |->
        [id |-> "explosive_bullets", rarity |-> "epic", attackType |-> "bullet",
         stackable |-> FALSE, maxStacks |-> 0, cost |-> 20,
         dependentOn |-> <<>>, dependencyCount |-> 1,
         replaces |-> <<"homing_bullets">>]]

RECURSIVE Count(_, _)
\* list.count(x)
Count(list, x) ==
    IF list = <<>> THEN 0
    ELSE (IF Head(list) = x THEN 1 ELSE 0) + Count(Tail(list), x)

\* two more entries of the catalog: one without an attack type, and the one
\* that explosive_bullets replaces and that replaces explosive_bullets
MORE_UPGRADES ==
    [regeneration |->
        [id |-> "regeneration", rarity |-> "epic", attackType |-> None,
         stackable |-> TRUE, maxStacks |-> 3, cost |-> 20,
         dependentOn |-> <<>>, dependencyCount |-> 1, replaces |-> <<>>],
     homing_bullets |->
        [id |-> "homing_bullets", rarity |-> "epic", attackType |-> "bullet",
         stackable |-> FALSE, maxStacks |-> 0, cost |-> 20,
         dependentOn |-> <<>>, dependencyCount |-> 1,
         replaces |-> <<"explosive_bullets">>]]

\* can_apply_upgrade without the check of a non-stackable upgrade that is
\* already applied
CanApplyOwned(catalog, upgrade_id, current_upgrades, attack_type) ==
    IF upgrade_id \notin DOMAIN catalog THEN FALSE
    ELSE LET upgrade == catalog[upgrade_id]
             owned == Range(current_upgrades)
         IN  /\ ~(upgrade.attackType # None /\ upgrade.attackType # attack_type)
             /\ ~(/\ upgrade.stackable
                  /\ upgrade.maxStacks # 0
                  /\ Count(current_upgrades, upgrade_id) >= upgrade.maxStacks)
             /\ ~(/\ upgrade.dependentOn # <<>>
                  /\ Cardinality({i \in DOMAIN upgrade.dependentOn :
                                    upgrade.dependentOn[i] \in owned})
                        < upgrade.dependencyCount)
             /\ \A i \in DOMAIN upgrade.replaces : upgrade.replaces[i] \notin owned

\* can_apply_upgrade over the entries of the catalog that a model keeps
CanApply(catalog, upgrade_id, current_upgrades, attack_type) ==
    IF upgrade_id \notin DOMAIN catalog THEN FALSE
    ELSE LET upgrade == catalog[upgrade_id]
             owned == Range(current_upgrades)
         IN  /\ ~(upgrade.attackType # None /\ upgrade.attackType # attack_type)
             /\ ~(~upgrade.stackable /\ upgrade_id \in owned)
             /\ ~(/\ upgrade.stackable
                  /\ upgrade.maxStacks # 0
                  /\ Count(current_upgrades, upgrade_id) >= upgrade.maxStacks)
             /\ ~(/\ upgrade.dependentOn # <<>>
                  /\ Cardinality({i \in DOMAIN upgrade.dependentOn :
                                    upgrade.dependentOn[i] \in owned})
                        < upgrade.dependencyCount)
             /\ \A i \in DOMAIN upgrade.replaces : upgrade.replaces[i] \notin owned

can_apply_upgrade(upgrade_id, current_upgrades, attack_type) ==
    CanApply(UPGRADES, upgrade_id, current_upgrades, attack_type)

\* count of _roll_upgrades
RollCount == 3

\* max_attempts of _roll_upgrades
max_attempts == 100

RARITY_WEIGHTS ==
    [common |-> 50, uncommon |-> 30, rare |-> 15, epic |-> 4, legendary |-> 1]

\* the while condition of _roll_upgrades with one more attempt allowed
RollContinuesOneMore(selected, attempts) ==
    Len(selected) < RollCount /\ attempts <= max_attempts

\* the while condition of _roll_upgrades
RollContinues(selected, attempts) ==
    Len(selected) < RollCount /\ attempts < max_attempts

\* The lists _roll_upgrades can return.  Every attempt picks a rarity, every
\* rarity has a positive weight, and an attempt whose rarity has no available
\* upgrade or whose pick repeats a non-stackable upgrade adds nothing; so any
\* list of at most RollCount available upgrades in which no non-stackable
\* upgrade occurs twice can come out, and nothing else.
_roll_upgrades(current_upgrades, attack_type) ==
    LET available_upgrades ==
            {id \in DOMAIN UPGRADES :
                can_apply_upgrade(id, current_upgrades, attack_type)}
    IN  {selected \in UNION {[1..n -> available_upgrades] : n \in 0..RollCount} :
            \A i, j \in DOMAIN selected :
                (i # j /\ selected[i] = selected[j]) => UPGRADES[selected[i]].stackable}

(***************************************************************************)
(* Wave tokens and game saves: documents.                                  *)
(***************************************************************************)

\* expiry_seconds of the token that start_wave creates
ExpirySeconds == 30

\* speed in the expected player stats that start_wave writes into a token
PlayerSpeed == 200

\* WaveValidationToken.create_for_wave; the token string is a fresh one, and
\* used_at is the empty list until the token is marked used
WaveValidationToken(token_string, user, wave_number, current_upgrades, offered_upgrades, seed, now) ==
    [token |-> token_string, user_id |-> user, wave_number |-> wave_number,
     expires_at |-> now + ExpirySeconds,
     expected_player_stats |-> [speed |-> PlayerSpeed],
     allowed_upgrades |-> current_upgrades,
     offered_upgrades |-> offered_upgrades, seed |-> seed,
     used |-> FALSE, used_at |-> <<>>]

\* WaveValidationToken.is_valid, with the expiry enforced as well
IsValidUntilExpiry(token) == ~token.used /\ clock <= token.expires_at

\* WaveValidationToken.is_valid, with every token accepted
IsValidAlways(token) == TRUE

\* WaveValidationToken.is_valid
is_valid(token) == ~token.used

OfferedUpgrade(id, purchased) == [id |-> id, purchased |-> purchased]

\* the fields of a game save that the wave handlers read or write
GameSave(user, current_wave, current_kills, current_damage_dealt, current_upgrades, offered_upgrades, seed) ==
    [user_id |-> user, current_wave |-> current_wave, current_points |-> 0,
     current_health |-> 100, current_kills |-> current_kills,
     current_damage_dealt |-> current_damage_dealt,
     current_upgrades |-> current_upgrades,
     offered_upgrades |-> offered_upgrades, seed |-> seed]

\* game_save_repo.find_by_user_id: the save of the user, if any (the unique
\* index on user_id leaves at most one)
FindSave(coll, user) == {s \in coll : s.user_id = user}

\* [OfferedUpgrade(id=u["id"], purchased=False) for u in offered_upgrades]
OfferedUpgradeObjs(ids) == [i \in DOMAIN ids |-> OfferedUpgrade(ids[i], FALSE)]

\* [u.id for u in offered_upgrades]
OfferedIds(objs) == [i \in DOMAIN objs |-> objs[i].id]

(***************************************************************************)
(* start_wave, one action per await.                                       *)
(***************************************************************************)

WaveNumbers == {1, 2}
Seeds == {7}

StartWaveRequest(user, wave_number, seed) ==
    [op |-> "start_wave", user |-> user, wave_number |-> wave_number,
     seed |-> seed]

\* a string that is the token of no wave
NoToken == 0

\* the response of a wave endpoint: errors is the list complete_wave returns,
\* token the token string start_wave returns
WaveResponse(request, ok, raised, errors, token) ==
    [req |-> request, ok |-> ok, raised |-> raised, errors |-> errors,
     token |-> token]

\* start_wave rolling whatever the save holds
UsesStoredOffersNever(game_save, wave_number) == FALSE

\* game_save and game_save.current_wave == wave_number and
\* game_save.offered_upgrades, game_save being the set of the saves found
UsesStoredOffers(game_save, wave_number) ==
    \E s \in game_save : /\ s.current_wave = wave_number
                         /\ s.offered_upgrades # <<>>

\* what start_wave returns: the token and the offered upgrades, which are the
\* stored offers with their purchased flags when the stored offers are used
\* again and the rolled upgrades otherwise
StartWaveResponse(request, token, offered_upgrades) ==
    WaveResponse(request, TRUE, FALSE, <<>>, token)
        @@ [offered_upgrades |-> offered_upgrades]

\* start_wave up to its first write: the player stats exist (registration
\* creates them), the game save is read, and the offered upgrades are the
\* stored ones or a new roll
StartWaveFind(p, user, wave_number, seed) ==
    /\ Accept(p)
    /\ LET game_save == FindSave(game_saves, user)
           current_upgrades ==
               IF game_save = {} THEN <<>>
               ELSE (CHOOSE s \in game_save : TRUE).current_upgrades
           reuse == UsesStoredOffers(game_save, wave_number)
       IN  \E offered \in
                IF reuse
                THEN {OfferedIds((CHOOSE s \in game_save : TRUE).offered_upgrades)}
                ELSE _roll_upgrades(current_upgrades, "bullet") :
             Goto(p, IF ~reuse /\ game_save # {} THEN "sw_offer" ELSE "sw_token",
                  StartWaveRequest(user, wave_number, seed),
                  [game_save |-> game_save,
                   current_upgrades |-> current_upgrades,
                   offered_upgrades |-> offered,
                   offered_upgrade_objs |->
                       IF reuse
                       THEN (CHOOSE s \in game_save : TRUE).offered_upgrades
                       ELSE OfferedUpgradeObjs(offered)])
    /\ UNCHANGED <<player_stats, clock, runVars, waveVars>>

\* start_wave: game_save_repo.update_by_id(game_save.id, offered_upgrades)
StartWaveOffer(p) ==
    /\ pc[p] = "sw_offer"
    /\ game_saves' =
          {IF s.user_id = req[p].user
           THEN [s EXCEPT !.offered_upgrades = loc[p].offered_upgrade_objs]
           ELSE s : s \in game_saves}
    /\ Goto(p, "sw_token", req[p], loc[p])
    /\ UNCHANGED <<nreq, player_stats, clock, runVars, tokens, flagged_waves,
                   nonce, issued>>

\* an insert that invalidates the earlier tokens of the user and wave
InsertOneInvalidating(coll, doc) ==
    {IF t.user_id = doc.user_id /\ t.wave_number = doc.wave_number
     THEN [t EXCEPT !.used = TRUE] ELSE t : t \in coll} \cup {doc}

\* collection.insert_one(doc): the collection has one more document
insert_one(coll, doc) == coll \cup {doc}

\* start_wave: wave_tokens_collection.insert_one(token_dict)
StartWaveToken(p) ==
    /\ pc[p] = "sw_token"
    /\ nonce' = nonce + 1
    /\ tokens' = insert_one(tokens,
          WaveValidationToken(nonce', req[p].user, req[p].wave_number,
                              loc[p].current_upgrades,
                              loc[p].offered_upgrades, req[p].seed, clock))
    /\ IF req[p].wave_number = 1 /\ loc[p].game_save = {}
       THEN /\ Goto(p, "sw_save", req[p], loc[p] @@ [token |-> nonce'])
            /\ UNCHANGED issued
       ELSE /\ Return(p, StartWaveResponse(req[p], nonce',
                                           loc[p].offered_upgrade_objs))
            /\ issued' = issued \cup {nonce'}
    /\ UNCHANGED <<nreq, player_stats, clock, runVars, flagged_waves,
                   game_saves>>

\* start_wave: game_save_repo.create(new_save) for wave 1 without a save; the
\* unique index on user_id refuses a second save of the user
StartWaveSave(p) ==
    /\ pc[p] = "sw_save"
    /\ IF FindSave(game_saves, req[p].user) # {}
       THEN /\ Return(p, WaveResponse(req[p], FALSE, TRUE, <<>>, NoToken))
            /\ UNCHANGED <<game_saves, issued>>
       ELSE /\ game_saves' = game_saves \cup
                  {GameSave(req[p].user, 1, 0, 0, <<>>,
                            loc[p].offered_upgrade_objs, req[p].seed)}
            /\ Return(p, StartWaveResponse(req[p], loc[p].token,
                                           loc[p].offered_upgrade_objs))
            /\ issued' = issued \cup {loc[p].token}
    /\ UNCHANGED <<nreq, player_stats, clock, runVars, tokens, flagged_waves,
                   nonce>>

(***************************************************************************)
(* complete_wave, one action per await.                                    *)
(***************************************************************************)

Frame(frame, timestamp, x, y) ==
    [frame |-> frame, timestamp |-> timestamp, player |-> [x |-> x, y |-> y]]

WaveData(kills, total_damage, frame_samples, enemy_deaths, upgrades_used) ==
    [wave |-> 1, kills |-> kills, total_damage |-> total_damage,
     current_health |-> 100, damage_taken |-> 0,
     frame_samples |-> frame_samples, enemy_deaths |-> enemy_deaths,
     upgrades_used |-> upgrades_used]

\* an honest submission: one triangle killed with exactly its health
CleanWave ==
    WaveData(1, 70, <<Frame(1, 0, 0, 0), Frame(2, 100, 20, 0)>>,
             <<[type |-> "triangle"]>>, <<>>)

\* 26 of the 70 damage the kill takes are missing: a medium damage flag
LowDamageWave ==
    WaveData(1, 50, <<Frame(1, 0, 0, 0), Frame(2, 100, 20, 0)>>,
             <<[type |-> "triangle"]>>, <<>>)

\* an upgrade that was neither allowed nor offered: a high upgrades flag
UnauthorizedWave ==
    WaveData(1, 70, <<>>, <<[type |-> "triangle"]>>, <<"laser_damage_1">>)

\* 50 units in 100 ms at speed 200, more than twice the 22 allowed: a
\* critical movement flag
TeleportWave ==
    WaveData(1, 70, <<Frame(1, 0, 0, 0), Frame(2, 100, 50, 0)>>,
             <<[type |-> "triangle"]>>, <<>>)

\* no kill and a negative total damage, which the request schema accepts
NegativeDamageWave == WaveData(0, -1, <<>>, <<>>, <<>>)

\* 26 of the 70 damage missing, and 30 units in 100 ms where 22 are
\* allowed: a medium damage flag and a high movement flag
SeveralFlagsWave ==
    WaveData(1, 50, <<Frame(1, 0, 0, 0), Frame(2, 100, 30, 0)>>,
             <<[type |-> "triangle"]>>, <<>>)

WaveInputs ==
    {CleanWave, LowDamageWave, UnauthorizedWave, TeleportWave,
     NegativeDamageWave, SeveralFlagsWave}

\* the token strings: NoToken and the ones start_wave can draw
TokenStrings == {NoToken} \cup (1..MaxReqs)

CompleteWaveRequest(user, token_string, wave_data) ==
    [op |-> "complete_wave", user |-> user, token |-> token_string,
     wave_data |-> wave_data]

\* the flags of the four checks, in the order the code appends them
Validate(token, wave_data) ==
    ValidateUpgrades(wave_data.upgrades_used,
                     Range(token.allowed_upgrades \o token.offered_upgrades))
    \o _validate_damage(wave_data.total_damage, wave_data.kills,
                        wave_data.enemy_deaths, token.wave_number)
    \o _validate_movement(wave_data.frame_samples,
                          token.expected_player_stats.speed)
    \o _validate_kills(wave_data.kills, token.wave_number)

\* one of the four checks raises instead of returning its flags
ValidateRaises(token, wave_data) ==
    DamageDeviationRaises(wave_data.total_damage, wave_data.kills,
                          wave_data.enemy_deaths, token.wave_number)

\* [f.description for f in flags]
Descriptions(flags) == [i \in DOMAIN flags |-> flags[i].description]

\* what complete_wave returns once it is past the token checks
Verdict(request, flags) ==
    LET high_severity_flags == SelectSeq2(flags, {"high", "critical"}) IN
    IF high_severity_flags # <<>>
    THEN WaveResponse(request, FALSE, FALSE, Descriptions(high_severity_flags),
                      NoToken)
    ELSE WaveResponse(request, TRUE, FALSE, <<>>, NoToken)

\* complete_wave up to its first write: find_one by token string, the token
\* checks in their order, then the four validations (an exception of a
\* validation ends the request before the token is marked used).  A client presents a
\* token string that a start_wave response carried, or one that is no token.
CompleteFind(p, user, token_string, wave_data) ==
    /\ Accept(p)
    /\ token_string \in issued \cup {NoToken}
    /\ LET request == CompleteWaveRequest(user, token_string, wave_data)
           token_doc == {t \in tokens : t.token = token_string}
       IN  IF token_doc = {}
           THEN Return(p, WaveResponse(request, FALSE, FALSE,
                             <<"Invalid or missing wave token">>, NoToken))
           ELSE \E token \in token_doc :
                IF ~is_valid(token)
                THEN Return(p, WaveResponse(request, FALSE, FALSE,
                                  <<"Token expired or already used">>, NoToken))
                ELSE IF token.user_id # user
                THEN Return(p, WaveResponse(request, FALSE, FALSE,
                                  <<"Token user mismatch">>, NoToken))
                ELSE IF ValidateRaises(token, wave_data)
                THEN Return(p, WaveResponse(request, FALSE, TRUE, <<>>, NoToken))
                ELSE Goto(p, "cw_mark", request,
                          [token |-> token, flags |-> Validate(token, wave_data)])
    /\ UNCHANGED <<player_stats, clock, runVars, waveVars>>

\* complete_wave: update_one({"_id": ...}, {"$set": {"used": True, ...}})
CompleteMarkUsed(p) ==
    /\ pc[p] = "cw_mark"
    /\ clock' = clock + 1
    /\ tokens' = {IF t.token = loc[p].token.token
                  THEN [t EXCEPT !.used = TRUE, !.used_at = <<clock'>>]
                  ELSE t : t \in tokens}
    /\ Goto(p, IF loc[p].flags # <<>> THEN "cw_flag" ELSE "cw_find_stats",
            req[p], loc[p])
    /\ UNCHANGED <<nreq, player_stats, runVars, flagged_waves, game_saves,
                   nonce, issued>>

SeverityRank ==
    [low |-> 0, medium |-> 1, high |-> 2, critical |-> 3]

\* the severity of the first flag in place of the highest
HighestSeverityOfFirst(flags) == flags[1].severity

\* max((f.severity for f in flags), key=index in the severity order)
HighestSeverity(flags) ==
    CHOOSE s \in {flags[i].severity : i \in DOMAIN flags} :
        \A i \in DOMAIN flags : SeverityRank[flags[i].severity] <= SeverityRank[s]

FlaggedWave(user, wave, flags, submitted_data, expected_data) ==
    [user_id |-> user, wave_number |-> wave, total_flags |-> Len(flags),
     highest_severity |-> HighestSeverity(flags),
     auto_ban |-> \E i \in DOMAIN flags : flags[i].severity = "critical",
     reasons |-> flags, submitted_data |-> submitted_data,
     expected_data |-> expected_data, reviewed |-> FALSE]

\* complete_wave: _flag_wave's insert_one, taken when there are flags; with a
\* critical flag the handler then returns without touching stats or save
CompleteFlag(p) ==
    /\ pc[p] = "cw_flag"
    /\ flagged_waves' = Append(flagged_waves,
          FlaggedWave(req[p].user, loc[p].token.wave_number, loc[p].flags,
                      req[p].wave_data, loc[p].token))
    /\ IF SelectSeq2(loc[p].flags, {"critical"}) # <<>>
       THEN Return(p, Verdict(req[p], loc[p].flags))
       ELSE Goto(p, "cw_find_stats", req[p], loc[p])
    /\ UNCHANGED <<nreq, player_stats, clock, runVars, tokens, game_saves,
                   nonce, issued>>

\* _update_player_stats_after_wave: find_by_user_id finds the stats, and
\* building the update reads stats.highest_wave_ever, which raises
\* AttributeError as in end_run: neither the update of the player stats nor
\* _save_game_state is reached, and complete_wave does not return.
CompleteFindStats(p) ==
    /\ pc[p] = "cw_find_stats"
    /\ ~HasAttr(player_stats[req[p].user], "highest_wave_ever")
    /\ Return(p, WaveResponse(req[p], FALSE, TRUE, <<>>, NoToken))
    /\ UNCHANGED <<nreq, player_stats, clock, runVars, waveVars>>

\* a client that holds an unused token waits before its next request: more
\* time passes than the expiry_seconds that start_wave gives a token
TimePasses ==
    /\ clock < MaxClock
    /\ \A p \in Procs : pc[p] = "idle"
    /\ \E k \in tokens : ~k.used /\ k.token \in issued
    /\ clock' = clock + ExpirySeconds + 1
    /\ UNCHANGED <<player_stats, pc, req, loc, ret, nreq, runVars, waveVars>>

NextWave ==
    \E p \in Procs :
        \/ \E u \in Owners, w \in WaveNumbers, s \in Seeds :
                StartWaveFind(p, u, w, s)
        \/ StartWaveOffer(p)
        \/ StartWaveToken(p)
        \/ StartWaveSave(p)
        \/ \E u \in Users, t \in TokenStrings, d \in WaveInputs :
                CompleteFind(p, u, t, d)
        \/ CompleteMarkUsed(p)
        \/ CompleteFlag(p)
        \/ CompleteFindStats(p)
        \/ TimePasses

SpecWave == Init /\ [][NextWave]_vars

(***************************************************************************)
(* Wave tokens: properties.                                                *)
(***************************************************************************)

\* the complete_wave handler p has passed the checks of the token
PassedToken(p, token_string) ==
    /\ pc[p] \in {"cw_mark", "cw_flag", "cw_find_stats"}
    /\ loc[p].token.token = token_string

\* C1: of the complete_wave requests that present one token, at most one
\* passes the token check and goes on towards the commit; every other one is
\* rejected at the check.
C1_OnePassesTokenCheck ==
    \A t \in TokenStrings :
        Cardinality({p \in Procs : PassedToken(p, t)}) <= 1

\* C2: a complete_wave that arrives when its token is already marked used
\* returns failure with the already-used error and ends there: player stats,
\* game saves, flagged waves and tokens are as they were.
C2_UsedTokenIsRejected ==
    [][\A p \in Procs, u \in Users, t \in TokenStrings, d \in WaveInputs :
         (CompleteFind(p, u, t, d) /\ \E k \in tokens : k.token = t /\ k.used)
            => /\ ret' = WaveResponse(CompleteWaveRequest(u, t, d), FALSE, FALSE,
                                      <<"Token expired or already used">>, NoToken)
               /\ pc'[p] = "idle"
               /\ UNCHANGED <<player_stats, game_saves, flagged_waves, tokens>>
      ]_vars

\* the bound user presents a token again after a first complete_wave has
\* marked it used, and is refused
C2_Witness ==
    /\ ret.req.op = "complete_wave"
    /\ ret.errors = <<"Token expired or already used">>
    /\ \E k \in tokens : /\ k.token = ret.req.token
                          /\ k.used
                          /\ k.user_id = ret.req.user
                          /\ k.used_at # <<>>
    /\ \A p \in Procs : pc[p] = "idle"

(***************************************************************************)
(* The outcome of complete_wave: properties.                               *)
(***************************************************************************)

\* C15: a submission whose flag list has a critical flag commits nothing:
\* once its token is marked used the handler goes to _flag_wave, whose record
\* has auto_ban = TRUE, and returns from there with failure; it never reaches
\* the player-stats step, and none of its steps changes the player stats or
\* the game saves.
C15_CriticalBlocksCommit ==
    [][\A p \in Procs :
         (/\ pc[p] \in {"cw_mark", "cw_flag", "cw_find_stats"}
          /\ pc'[p] # pc[p]
          /\ \E i \in DOMAIN loc[p].flags : loc[p].flags[i].severity = "critical")
            => /\ player_stats' = player_stats
               /\ game_saves' = game_saves
               /\ pc[p] = "cw_mark" => pc'[p] = "cw_flag"
               /\ pc[p] = "cw_flag" =>
                    /\ pc'[p] = "idle"
                    /\ ~ret'.ok /\ ~ret'.raised
                    /\ Len(flagged_waves') = Len(flagged_waves) + 1
                    /\ flagged_waves'[Len(flagged_waves')].auto_ban = TRUE
                    /\ flagged_waves'[Len(flagged_waves')].reasons = loc[p].flags
               /\ pc[p] # "cw_find_stats"]_vars

\* a submission with a critical movement flag has been answered: it failed,
\* its token is used and its flagged-wave record asks for the ban
C15_Witness ==
    /\ ret.req.op = "complete_wave"
    /\ ret.req.wave_data = TeleportWave
    /\ ~ret.ok /\ ~ret.raised
    /\ \E k \in tokens : k.token = ret.req.token /\ k.used
    /\ flagged_waves # <<>>
    /\ flagged_waves[Len(flagged_waves)].auto_ban
    /\ flagged_waves[Len(flagged_waves)].highest_severity = "critical"

\* C16: a submission that passed the token checks and has no critical flag
\* is committed and answered: every non-empty flag list is recorded as a
\* flagged wave once the token is marked used, and when the handler ends the
\* caller's player stats have the wave's kills and damage added and one more
\* games_won, the caller has a game save, and the answer is success exactly
\* when no flag is high or critical (else failure with the descriptions of
\* those flags).
C16_CommitAndVerdict ==
    [][\A p \in Procs :
         /\ (pc[p] = "cw_mark" /\ pc'[p] # pc[p] /\ loc[p].flags # <<>>)
              => pc'[p] = "cw_flag"
         /\ (pc[p] = "cw_flag" /\ pc'[p] # pc[p])
              => /\ Len(flagged_waves') = Len(flagged_waves) + 1
                 /\ flagged_waves'[Len(flagged_waves')].reasons = loc[p].flags
         /\ (pc[p] = "cw_find_stats" /\ pc'[p] = "idle")
              => /\ ret' = Verdict(req[p], loc[p].flags)
                 /\ ret'.ok = (\A i \in DOMAIN loc[p].flags :
                                 loc[p].flags[i].severity \in {"low", "medium"})
                 /\ player_stats'[req[p].user].total_kills =
                        player_stats[req[p].user].total_kills
                            + req[p].wave_data.kills
                 /\ player_stats'[req[p].user].total_damage_dealt =
                        player_stats[req[p].user].total_damage_dealt
                            + req[p].wave_data.total_damage
                 /\ player_stats'[req[p].user].games_won =
                        player_stats[req[p].user].games_won + 1
                 /\ FindSave(game_saves', req[p].user) # {}]_vars

\* C17: complete_wave refuses a token string with "Invalid or missing wave
\* token" when no token record has it, else with "Token expired or already
\* used" when the record is used, else with "Token user mismatch" when the
\* record is bound to another user than the caller; in each case the handler
\* ends there: no validation is run, and tokens, player stats, game saves
\* and flagged waves are as they were.
C17_TokenErrors ==
    [][\A p \in Procs, u \in Users, t \in TokenStrings, d \in WaveInputs :
         LET request == CompleteWaveRequest(u, t, d)
             records == {k \in tokens : k.token = t}
             error == IF records = {} THEN "Invalid or missing wave token"
                      ELSE IF \E k \in records : k.used
                           THEN "Token expired or already used"
                      ELSE IF \E k \in records : k.user_id # u
                           THEN "Token user mismatch"
                      ELSE "none"
         IN  (CompleteFind(p, u, t, d) /\ error # "none")
                => /\ ret' = WaveResponse(request, FALSE, FALSE, <<error>>, NoToken)
                   /\ pc'[p] = "idle"
                   /\ UNCHANGED <<tokens, player_stats, game_saves,
                                  flagged_waves>>]_vars

\* a caller has presented the unused token of another user: the answer is
\* the user mismatch and the token is still unused
C17_Witness ==
    /\ ret.req.op = "complete_wave"
    /\ ret.errors = <<"Token user mismatch">>
    /\ \E k \in tokens : /\ k.token = ret.req.token
                          /\ k.user_id # ret.req.user
                          /\ ~k.used
    /\ flagged_waves = <<>>

C19_NeverRaises ==
    ret.req.op = "complete_wave" => ~ret.raised

\* C20: all four checks are always evaluated: every complete_wave that passes
\* the token checks goes on to the marking of the token with the flag list
\* that is the concatenation, in the order upgrades, damage, movement, kills,
\* of the flags each check produces on its own inputs.
C20_AllChecksRun ==
    [][\A p \in Procs, u \in Users, t \in TokenStrings, d \in WaveInputs :
         \A k \in tokens :
           (/\ CompleteFind(p, u, t, d)
            /\ k.token = t /\ ~k.used /\ k.user_id = u)
              => /\ pc'[p] = "cw_mark"
                 /\ loc'[p].flags =
                       ValidateUpgrades(d.upgrades_used,
                           Range(k.allowed_upgrades) \cup Range(k.offered_upgrades))
                       \o _validate_damage(d.total_damage, d.kills,
                                           d.enemy_deaths, k.wave_number)
                       \o _validate_movement(d.frame_samples,
                                             k.expected_player_stats.speed)
                       \o _validate_kills(d.kills, k.wave_number)]_vars

\* the record has the summary fields that the flags call for: the highest
\* severity in the order low < medium < high < critical, auto_ban exactly
\* with a critical flag, and the number of flags
SummarisesFlags(record, flags) ==
    /\ record.reasons = flags
    /\ record.total_flags = Len(flags)
    /\ record.total_flags >= 1
    /\ \E i \in DOMAIN flags : record.highest_severity = flags[i].severity
    /\ \A i \in DOMAIN flags :
          SeverityRank[flags[i].severity] <= SeverityRank[record.highest_severity]
    /\ record.auto_ban <=> \E i \in DOMAIN flags : flags[i].severity = "critical"
    /\ record.auto_ban <=> record.highest_severity = "critical"

\* C27: every flagged-wave record written summarises its flags: its
\* highest_severity is the maximum severity of the flags, its auto_ban is
\* true exactly when a flag is critical, which is exactly when
\* highest_severity is critical, and its total_flags is the number of flags,
\* at least 1.  A record is written exactly when the flag list is non-empty:
\* a complete_wave that has marked its token used goes on to write the
\* record exactly when it has flags, then writes one record before anything
\* else, and no other step writes a record.
C27_FlaggedRecords ==
    [][/\ \A p \in Procs :
            /\ (pc[p] = "cw_mark" /\ pc'[p] # "cw_mark") =>
                    /\ loc'[p].flags = loc[p].flags
                    /\ pc'[p] = "cw_flag" <=> loc[p].flags # <<>>
            /\ (pc[p] = "cw_flag" /\ pc'[p] # "cw_flag") =>
                    /\ Len(flagged_waves') = Len(flagged_waves) + 1
                    /\ SummarisesFlags(flagged_waves'[Len(flagged_waves')],
                                       loc[p].flags)
       /\ flagged_waves' # flagged_waves =>
            /\ \E p \in Procs : pc[p] = "cw_flag" /\ pc'[p] # "cw_flag"
            /\ SubSeq(flagged_waves', 1, Len(flagged_waves)) = flagged_waves
      ]_vars

\* a record of two flags, the first medium and the second high, has been
\* written
C27_Witness ==
    \E i \in DOMAIN flagged_waves :
        /\ flagged_waves[i].total_flags = 2
        /\ flagged_waves[i].reasons[1].severity = "medium"
        /\ flagged_waves[i].highest_severity = "high"
        /\ ~flagged_waves[i].auto_ban

(***************************************************************************)
(* The checks and the roll as functions: every action calls one of them on *)
(* arguments drawn from a bounded set and leaves the call and its result   *)
(* in ret, from where the caller takes it before the next call.            *)
(***************************************************************************)

callVars ==
    <<runs, player_stats, uuid, clock, pc, req, loc, ended, nreq, tokens,
      flagged_waves, game_saves, nonce, issued>>

\* the lists of at most n elements of the set
SeqUpTo(S, n) == UNION {[1..k -> S] : k \in 0..n}

CallResult(op, args, result) ==
    [req |-> [op |-> op, args |-> args], done |-> TRUE, raised |-> FALSE,
     result |-> result]

\* the call raised an exception
CallRaised(op, args) ==
    [req |-> [op |-> op, args |-> args], done |-> TRUE, raised |-> TRUE,
     result |-> <<>>]

\* no call has been made whose result the caller has not taken
NoCall == ret = NoResponse

\* the caller takes the result
CallReturns ==
    /\ ~NoCall
    /\ ret.done
    /\ ret' = NoResponse
    /\ UNCHANGED callVars

\* the upgrade ids a submission names, and the lists a token carries
UsedIds == {"bullet_damage_1", "laser_damage_1", "explosive_bullets"}
AllowedLists == {<<>>, <<"bullet_damage_1">>}
OfferedLists == {<<>>, <<"laser_damage_1">>, <<"bullet_damage_1", "laser_damage_1">>}

\* the first check of complete_wave on a submission's upgrades_used and a
\* token's allowed_upgrades and offered_upgrades
CallValidateUpgrades ==
    /\ NoCall
    /\ \E upgrades_used \in SeqUpTo(UsedIds, MaxLen),
          allowed_upgrades \in AllowedLists, offered_upgrades \in OfferedLists :
          ret' = CallResult("validate_upgrades",
                    [upgrades_used |-> upgrades_used,
                     allowed_upgrades |-> allowed_upgrades,
                     offered_upgrades |-> offered_upgrades],
                    ValidateUpgrades(upgrades_used,
                        Range(allowed_upgrades \o offered_upgrades)))
    /\ UNCHANGED callVars

\* C21: the upgrades check gives one flag of category upgrades and severity
\* high, naming the id, for every entry of upgrades_used whose id is neither
\* in allowed_upgrades nor in offered_upgrades, in the order of the entries,
\* and no other flag: as many flags as unauthorized entries.
C21_UpgradeFlags ==
    ret.req.op = "validate_upgrades" =>
        LET a == ret.req.args
            valid == Range(a.allowed_upgrades) \cup Range(a.offered_upgrades)
            bad == {i \in DOMAIN a.upgrades_used : a.upgrades_used[i] \notin valid}
        IN  /\ Len(ret.result) = Cardinality(bad)
            /\ \A n \in DOMAIN ret.result :
                 /\ ret.result[n].category = "upgrades"
                 /\ ret.result[n].severity = "high"
                 /\ \E i \in bad :
                      /\ Cardinality({j \in bad : j <= i}) = n
                      /\ ret.result[n].description =
                            "Unauthorized upgrade used: " \o a.upgrades_used[i]

\* a list with an authorized entry between two unauthorized entries of one
\* id has been checked: two flags
C21_Witness ==
    /\ ret.req.op = "validate_upgrades"
    /\ ret.req.args.upgrades_used =
            <<"explosive_bullets", "laser_damage_1", "explosive_bullets">>
    /\ ret.req.args.offered_upgrades = <<"laser_damage_1">>
    /\ Len(ret.result) = 2

\* the arguments of the damage check: a wave, a list of deaths (none, one
\* enemy, ten triangles, a shielded hexagon, two types) and a reported damage
CallWaves == {1, 5}
Deaths(n, enemy_type) == [i \in 1..n |-> [type |-> enemy_type]]
DeathLists ==
    {<<>>, Deaths(1, "triangle"), Deaths(10, "triangle"), Deaths(1, "hexagon"),
     Deaths(1, "triangle") \o Deaths(1, "square")}
MaxDamage == 1900
DamageReports == (-1)..MaxDamage

CallValidateDamage ==
    /\ NoCall
    /\ \E wave \in CallWaves, enemy_deaths \in DeathLists,
          reported_damage \in DamageReports :
          LET args == [reported_damage |-> reported_damage,
                       kills |-> Len(enemy_deaths),
                       enemy_deaths |-> enemy_deaths, wave |-> wave]
          IN  ret' = IF DamageDeviationRaises(reported_damage, Len(enemy_deaths),
                                              enemy_deaths, wave)
                     THEN CallRaised("_validate_damage", args)
                     ELSE CallResult("_validate_damage", args,
                              _validate_damage(reported_damage, Len(enemy_deaths),
                                               enemy_deaths, wave))
    /\ UNCHANGED callVars

\* the damage check was called for wave 5 and ten triangle deaths
TenTrianglesOfWave5(reported_damage) ==
    /\ ret.req.op = "_validate_damage"
    /\ ret.req.args.wave = 5
    /\ ret.req.args.enemy_deaths = Deaths(10, "triangle")
    /\ ret.req.args.reported_damage = reported_damage

\* C22 as stated: for wave 5 and ten triangle deaths the minimum is
\* floor(70 * e^(4/6)) * 10 = 1360; a reported damage of 1360 gives no flag,
\* and a reported damage of 680 gives one damage flag of severity high.
C22_HalfDamageIsHigh ==
    /\ TenTrianglesOfWave5(1360) => ~ret.raised /\ ret.result = <<>>
    /\ TenTrianglesOfWave5(680) =>
          /\ ~ret.raised
          /\ Len(ret.result) = 1
          /\ ret.result[1].category = "damage"
          /\ ret.result[1].severity = "high"

\* C22: for wave 5 and ten triangle deaths the minimum is
\* floor(70 * e^(4/6)) * 10 = 1360; a reported damage of 1360 gives no flag,
\* and a reported damage of 680, a deviation of exactly 50, gives one damage
\* flag of severity medium.
C22_HalfDamageIsMedium ==
    /\ calculate_minimum_damage_required(5, Deaths(10, "triangle")) = 1360
    /\ TenTrianglesOfWave5(1360) => ~ret.raised /\ ret.result = <<>>
    /\ TenTrianglesOfWave5(680) =>
          /\ ~ret.raised
          /\ Len(ret.result) = 1
          /\ ret.result[1].category = "damage"
          /\ ret.result[1].severity = "medium"
          /\ ret.result[1].deviation_percent = Percent(680, 1360)

C22_Witness == TenTrianglesOfWave5(680) /\ Len(ret.result) = 1

\* C23: with min the minimum damage of the death list, the damage check gives
\* a flag exactly when the reported damage is below 0.8 * min; the flag's
\* deviation percent is (min - reported) / min * 100, its severity is high
\* when that deviation exceeds 50 and medium otherwise, and there is at most
\* one damage flag.
C23_DamageRule ==
    ret.req.op = "_validate_damage" =>
        LET a == ret.req.args
            min == calculate_minimum_damage_required(a.wave, a.enemy_deaths)
            flagged == ~ret.raised /\ ret.result # <<>>
        IN  /\ flagged <=> 10 * a.reported_damage < 8 * min
            /\ flagged =>
                 /\ Len(ret.result) = 1
                 /\ ret.result[1].category = "damage"
                 /\ ret.result[1].deviation_percent =
                        Percent(min - a.reported_damage, min)
                 /\ ret.result[1].severity =
                        IF 100 * (min - a.reported_damage) > 50 * min
                        THEN "high" ELSE "medium"

\* the arguments of the movement check: frames numbered from 1 whose
\* timestamps are a time of StepMs apart and whose positions are a
\* displacement of StepUnits apart (of length 0, 22, 23, 44, 45, 215, 220,
\* just above 220, 250, 440 and just above 440); the player speed is 200
StepMs == {-100, 0, 100, 1000}
StepUnits ==
    {<<0, 0>>, <<22, 0>>, <<0, 23>>, <<44, 0>>, <<45, 0>>, <<215, 0>>,
     <<132, 176>>, <<133, 176>>, <<250, 0>>, <<264, 352>>, <<265, 352>>}
Steps == StepMs \X StepUnits

RECURSIVE FramesOf(_, _, _, _)
\* the frames from the n-th on, the one before being at time t and place xy
FramesOf(steps, n, t, xy) ==
    IF steps = <<>> THEN <<>>
    ELSE LET timestamp == t + Head(steps)[1]
             x == xy[1] + Head(steps)[2][1]
             y == xy[2] + Head(steps)[2][2]
         IN  <<Frame(n, timestamp, x, y)>>
             \o FramesOf(Tail(steps), n + 1, timestamp, <<x, y>>)

FrameLists ==
    {<<>>} \cup {<<Frame(1, 0, 0, 0)>> \o FramesOf(steps, 2, 0, <<0, 0>>) :
                    steps \in SeqUpTo(Steps, MaxSteps)}

CallValidateMovement ==
    /\ NoCall
    /\ \E frame_samples \in FrameLists :
          ret' = CallResult("_validate_movement",
                    [frame_samples |-> frame_samples, player_speed |-> PlayerSpeed],
                    _validate_movement(frame_samples, PlayerSpeed))
    /\ UNCHANGED callVars

MovementDescription(frame) ==
    "Player moved faster than possible (frame " \o ToString(frame) \o ")"

\* the square of the distance of the step to frame i, and 100 times the
\* distance playerSpeed * elapsedSeconds * 1.10 that the step may cover
StepDistance2(frame_samples, i) ==
    (frame_samples[i].player.x - frame_samples[i - 1].player.x)
        * (frame_samples[i].player.x - frame_samples[i - 1].player.x)
    + (frame_samples[i].player.y - frame_samples[i - 1].player.y)
        * (frame_samples[i].player.y - frame_samples[i - 1].player.y)
StepElapsedMs(frame_samples, i) ==
    frame_samples[i].timestamp - frame_samples[i - 1].timestamp
StepAllowed100(frame_samples, i, player_speed) ==
    (player_speed * StepElapsedMs(frame_samples, i) * 110) \div 1000

\* the steps whose distance exceeds playerSpeed * elapsedSeconds * 1.10
TooFast(frame_samples, player_speed) ==
    {i \in 2..Len(frame_samples) :
        \/ StepAllowed100(frame_samples, i, player_speed) < 0
        \/ 10000 * StepDistance2(frame_samples, i) >
                StepAllowed100(frame_samples, i, player_speed)
                    * StepAllowed100(frame_samples, i, player_speed)}

\* the flags are one movement flag for every step of the set, in the order
\* of the steps
FlagsOfSteps(flags, frame_samples, steps) ==
    /\ Len(flags) = Cardinality(steps)
    /\ \A n \in DOMAIN flags :
         /\ flags[n].category = "movement"
         /\ \E i \in steps :
              /\ Cardinality({j \in steps : j <= i}) = n
              /\ flags[n].description =
                    MovementDescription(frame_samples[i].frame)

\* C24 as stated: for a submission with at least two frame samples, the
\* movement check gives one movement flag for every step between consecutive
\* samples whose distance exceeds playerSpeed * elapsedSeconds * 1.10, and no
\* flag for any other step.
C24_EveryFastStepFlagged ==
    (ret.req.op = "_validate_movement" /\ Len(ret.req.args.frame_samples) >= 2) =>
        FlagsOfSteps(ret.result, ret.req.args.frame_samples,
            TooFast(ret.req.args.frame_samples, ret.req.args.player_speed))

\* C24: for a submission with at least two frame samples, the movement check
\* gives one movement flag for every step between consecutive samples whose
\* elapsed time is positive and whose distance exceeds
\* playerSpeed * elapsedSeconds * 1.10, in the order of the steps, and no flag
\* for any other step; at speed 200 and 1000 ms a step of 215 units is not
\* flagged and a step of 250 units is.
C24_MovementFlags ==
    (ret.req.op = "_validate_movement" /\ Len(ret.req.args.frame_samples) >= 2) =>
        LET a == ret.req.args
            fast == {i \in TooFast(a.frame_samples, a.player_speed) :
                        StepElapsedMs(a.frame_samples, i) > 0}
        IN  /\ FlagsOfSteps(ret.result, a.frame_samples, fast)
            /\ \A i \in 2..Len(a.frame_samples) :
                 StepElapsedMs(a.frame_samples, i) = 1000 =>
                    /\ StepDistance2(a.frame_samples, i) = 215 * 215 => i \notin fast
                    /\ StepDistance2(a.frame_samples, i) = 250 * 250 => i \in fast

\* a step of 215 units and a step of 250 units, each in 1000 ms, have been
\* checked together: one flag, for the second
C24_Witness ==
    /\ ret.req.op = "_validate_movement"
    /\ ret.req.args.frame_samples =
            <<Frame(1, 0, 0, 0), Frame(2, 1000, 215, 0), Frame(3, 2000, 465, 0)>>
    /\ Len(ret.result) = 1
    /\ ret.result[1].description = MovementDescription(3)

\* the steps that the movement check flags
FlaggedSteps(frame_samples, player_speed) ==
    {i \in TooFast(frame_samples, player_speed) :
        StepElapsedMs(frame_samples, i) > 0}

\* C25: the flag of a flagged step has severity critical exactly when the
\* step's distance exceeds twice the allowed maximum, an overshoot above 100
\* percent, and high otherwise; a submission with fewer than two frame
\* samples gets no movement flag.
C25_MovementSeverity ==
    ret.req.op = "_validate_movement" =>
        LET a == ret.req.args
            flagged == FlaggedSteps(a.frame_samples, a.player_speed)
        IN  /\ Len(a.frame_samples) < 2 => ret.result = <<>>
            /\ Len(ret.result) = Cardinality(flagged)
            /\ \A i \in flagged :
                 LET n == Cardinality({j \in flagged : j <= i})
                     allowed100 == StepAllowed100(a.frame_samples, i, a.player_speed)
                 IN  /\ ret.result[n].description =
                            MovementDescription(a.frame_samples[i].frame)
                     /\ ret.result[n].deviation_percent =
                            RootPercent(10000 * StepDistance2(a.frame_samples, i),
                                        allowed100)
                     /\ ret.result[n].severity =
                            IF 10000 * StepDistance2(a.frame_samples, i)
                                    > 4 * allowed100 * allowed100
                            THEN "critical" ELSE "high"

\* a step of exactly twice the allowed distance and a step just above it
\* have been checked together: a high flag and a critical flag
C25_Witness ==
    /\ ret.req.op = "_validate_movement"
    /\ ret.req.args.frame_samples =
            <<Frame(1, 0, 0, 0), Frame(2, 1000, 264, 352), Frame(3, 2000, 529, 704)>>
    /\ Len(ret.result) = 2
    /\ ret.result[1].severity = "high"
    /\ ret.result[2].severity = "critical"

\* the arguments of the kills check: the token's wave and the reported kills
CallValidateKills ==
    /\ NoCall
    /\ \E kills \in (-1)..MaxKills, wave \in 1..MaxWave :
          ret' = CallResult("_validate_kills", [kills |-> kills, wave |-> wave],
                            _validate_kills(kills, wave))
    /\ UNCHANGED callVars

\* 30, 35, 30, 40, 40, 50, 45 for the waves 1..7 and floor(45 + 2w + w^1.2)
\* from wave 8 on: 8^1.2 = 12.12.., 9^1.2 = 13.96.., 10^1.2 = 15.84..
ExpectedKills == <<30, 35, 30, 40, 40, 50, 45, 73, 76, 80>>

\* C26: the kills check gives exactly one flag, of category kills and
\* severity high, when the reported kills exceed 1.2 * expected(wave), and
\* none otherwise; the flag's deviation percent is
\* (kills - expected) / expected * 100.
C26_KillsRule ==
    ret.req.op = "_validate_kills" =>
        LET a == ret.req.args
            expected == ExpectedKills[a.wave]
        IN  IF 10 * a.kills > 12 * expected
            THEN /\ Len(ret.result) = 1
                 /\ ret.result[1].category = "kills"
                 /\ ret.result[1].severity = "high"
                 /\ ret.result[1].deviation_percent =
                        Percent(a.kills - expected, expected)
            ELSE ret.result = <<>>

\* 88 kills have been checked for wave 8, where 73 are expected and 87.6 is
\* the most that passes: one flag
C26_Witness ==
    /\ ret.req.op = "_validate_kills"
    /\ ret.req.args = [kills |-> 88, wave |-> 8]
    /\ Len(ret.result) = 1

(***************************************************************************)
(* _roll_upgrades, attempt by attempt.                                     *)
(***************************************************************************)

\* the entries of the catalog that the roll is called on
RollCatalog == UPGRADES @@ MORE_UPGRADES

\* the owned lists given to the roll: nothing, one of each kind, the two
\* stackable upgrades at one below and at their maxStacks
Owned(n, upgrade_id) == [i \in 1..n |-> upgrade_id]
OwnedLists ==
    {<<>>, <<"explosive_bullets">>, <<"homing_bullets">>,
     Owned(2, "regeneration"), Owned(3, "regeneration"),
     <<"explosive_bullets">> \o Owned(4, "explosion_radius"),
     <<"explosive_bullets">> \o Owned(5, "explosion_radius")}
AttackTypes == {"bullet", "laser", "zapper"}

\* a roll in progress: the locals of _roll_upgrades
Rolling(args, available_upgrades, selected, attempts) ==
    [req |-> [op |-> "_roll_upgrades", args |-> args], done |-> FALSE,
     raised |-> FALSE, result |-> <<>>,
     available_upgrades |-> available_upgrades, selected |-> selected,
     attempts |-> attempts]

\* a roll that has returned
Rolled(args, available_upgrades, selected, attempts, result) ==
    [req |-> [op |-> "_roll_upgrades", args |-> args], done |-> TRUE,
     raised |-> FALSE, result |-> result,
     available_upgrades |-> available_upgrades, selected |-> selected,
     attempts |-> attempts]

\* list[:n]
Take(list, n) == SubSeq(list, 1, IF Len(list) < n THEN Len(list) ELSE n)

\* _roll_upgrades up to its loop: with no available upgrade it returns []
CallRollUpgrades ==
    /\ NoCall
    /\ \E current_upgrades \in OwnedLists, attack_type \in AttackTypes :
          LET args == [current_upgrades |-> current_upgrades,
                       attack_type |-> attack_type]
              available_upgrades ==
                    {id \in DOMAIN RollCatalog :
                        CanApply(RollCatalog, id, current_upgrades, attack_type)}
          IN  ret' = IF available_upgrades = {}
                     THEN Rolled(args, available_upgrades, <<>>, 0, <<>>)
                     ELSE Rolling(args, available_upgrades, <<>>, 0)
    /\ UNCHANGED callVars

RollInProgress == ~NoCall /\ ~ret.done

\* one pass of the loop: _pick_rarity returns any of the rarities,
\* random.choice any available upgrade of that rarity, and the upgrade is
\* appended unless it is selected already and not stackable
RollAttempt ==
    /\ RollInProgress
    /\ RollContinues(ret.selected, ret.attempts)
    /\ \E rarity \in DOMAIN RARITY_WEIGHTS :
          LET rarity_upgrades ==
                    {id \in ret.available_upgrades : RollCatalog[id].rarity = rarity}
          IN  \/ /\ rarity_upgrades = {}
                 /\ ret' = [ret EXCEPT !.attempts = @ + 1]
              \/ \E upgrade \in rarity_upgrades :
                    ret' = [ret EXCEPT
                        !.selected =
                            IF upgrade \notin Range(@) \/ RollCatalog[upgrade].stackable
                            THEN Append(@, upgrade) ELSE @,
                        !.attempts = @ + 1]
    /\ UNCHANGED callVars

\* the loop ends: return selected[:count]
RollReturn ==
    /\ RollInProgress
    /\ ~RollContinues(ret.selected, ret.attempts)
    /\ ret' = [ret EXCEPT !.done = TRUE, !.result = Take(ret.selected, RollCount)]
    /\ UNCHANGED callVars

NextRoll ==
    \/ CallReturns
    \/ CallRollUpgrades
    \/ RollAttempt
    \/ RollReturn

\* the loop of a roll goes on while it can
SpecRoll == Init /\ [][NextRoll]_vars /\ WF_vars(RollAttempt \/ RollReturn)

\* the upgrade is eligible against the owned list: its attack-type filter
\* is absent or matches, it is not owned if it is not stackable, its owned
\* stack count is below its maxStacks, at least dependencyCount of its
\* dependentOn ids are owned, and none of its replaces ids is owned
Eligible(upgrade, owned, attack_type) ==
    /\ upgrade.attackType = None \/ upgrade.attackType = attack_type
    /\ ~upgrade.stackable => \A i \in DOMAIN owned : owned[i] # upgrade.id
    /\ upgrade.maxStacks # 0 =>
            Cardinality({i \in DOMAIN owned : owned[i] = upgrade.id})
                < upgrade.maxStacks
    /\ upgrade.dependentOn # <<>> =>
            Cardinality({i \in DOMAIN upgrade.dependentOn :
                            \E j \in DOMAIN owned : owned[j] = upgrade.dependentOn[i]})
                >= upgrade.dependencyCount
    /\ \A i \in DOMAIN upgrade.replaces :
            \A j \in DOMAIN owned : owned[j] # upgrade.replaces[i]

\* C28: every upgrade that a roll returns is eligible against the owned list
\* given to the roll, and an upgrade that is not stackable appears at most
\* once in the returned list.
C28_RolledAreEligible ==
    (ret.req.op = "_roll_upgrades" /\ ret.done) =>
        /\ \A n \in DOMAIN ret.result :
              Eligible(RollCatalog[ret.result[n]], ret.req.args.current_upgrades,
                       ret.req.args.attack_type)
        /\ \A m, n \in DOMAIN ret.result :
              (m # n /\ ret.result[m] = ret.result[n]) =>
                    RollCatalog[ret.result[m]].stackable

\* a roll for an owner of explosive_bullets has returned explosion_radius,
\* which depends on it, regeneration, which has no attack type, and
\* regeneration again
C28_Witness ==
    /\ ret.req.op = "_roll_upgrades"
    /\ ret.done
    /\ ret.req.args.current_upgrades = <<"explosive_bullets">>
    /\ ret.req.args.attack_type = "bullet"
    /\ ret.result = <<"explosion_radius", "regeneration", "regeneration">>

\* no entry of the catalog is eligible for the roll's arguments
NoneEligible(args) ==
    \A id \in DOMAIN RollCatalog :
        ~Eligible(RollCatalog[id], args.current_upgrades, args.attack_type)

\* C29: a roll always terminates: whatever the draws are it makes at most
\* 100 attempts, it returns a list of at most count upgrades, and with no
\* eligible upgrade it returns the empty list without an error.
C29_RollTerminates ==
    /\ [](ret.req.op = "_roll_upgrades" =>
            /\ ret.attempts <= 100
            /\ ret.done =>
                  /\ ~ret.raised
                  /\ Len(ret.result) <= RollCount
                  /\ NoneEligible(ret.req.args) => ret.result = <<>>)
    /\ [](ret.req.op = "_roll_upgrades" => <>(ret.req.op = "_roll_upgrades" /\ ret.done))

\* a roll has used its 100 attempts and returned fewer than count upgrades
C29_Witness ==
    /\ ret.req.op = "_roll_upgrades"
    /\ ret.done
    /\ ret.attempts = 100
    /\ Len(ret.result) < RollCount

(***************************************************************************)
(* The outcome of complete_wave as a function of the token, the submission *)
(* and the game save found: the flags, the answer, and the game save that  *)
(* _save_game_state writes for a submission without critical flags.        *)
(***************************************************************************)

\* _save_game_state writing the wave that the client submitted
SaveGameStateOfSubmittedWave(user_id, existing_save, wave_data, wave_number) ==
    IF existing_save # {}
    THEN LET s == CHOOSE s \in existing_save : TRUE
         IN  [s EXCEPT !.current_wave = wave_data.wave + 1,
                       !.current_kills = s.current_kills + wave_data.kills,
                       !.current_damage_dealt =
                            s.current_damage_dealt + wave_data.total_damage,
                       !.current_upgrades = wave_data.upgrades_used,
                       !.offered_upgrades = <<>>,
                       !.current_health = wave_data.current_health]
    ELSE GameSave(user_id, wave_data.wave, wave_data.kills,
                  wave_data.total_damage, wave_data.upgrades_used, <<>>, 0)

\* _save_game_state: the game save it leaves, existing_save being the set of
\* the saves that find_by_user_id found; the submission has no seed, so
\* wave_data.get("seed", 0) is 0
_save_game_state(user_id, existing_save, wave_data, wave_number) ==
    IF existing_save # {}
    THEN LET s == CHOOSE s \in existing_save : TRUE
         IN  [s EXCEPT !.current_wave = wave_number + 1,
                       !.current_kills = s.current_kills + wave_data.kills,
                       !.current_damage_dealt =
                            s.current_damage_dealt + wave_data.total_damage,
                       !.current_upgrades = wave_data.upgrades_used,
                       !.offered_upgrades = <<>>,
                       !.current_health = wave_data.current_health]
    ELSE GameSave(user_id, wave_number, wave_data.kills,
                  wave_data.total_damage, wave_data.upgrades_used, <<>>, 0)

\* the flags, the answer and the game save of a submission; the game save is
\* written only when no flag is critical
CompleteOutcome(token, wave_data, existing_save) ==
    LET flags == Validate(token, wave_data)
        answer == Verdict(Idle, flags)
    IN  [flags |-> flags, ok |-> answer.ok, errors |-> answer.errors,
         save |-> IF SelectSeq2(flags, {"critical"}) = <<>>
                  THEN {_save_game_state(token.user_id, existing_save,
                                         wave_data, token.wave_number)}
                  ELSE {}]

\* the wave numbers that a submission names in its wave field
SubmittedWaves == {1, 2}

CallCompleteOutcome ==
    /\ NoCall
    /\ \E allowed_upgrades \in AllowedLists, offered_upgrades \in OfferedLists,
          wave_number \in WaveNumbers, d \in WaveInputs, w \in SubmittedWaves,
          saved \in BOOLEAN :
          LET token == WaveValidationToken(1, "u1", wave_number,
                            allowed_upgrades, offered_upgrades, 7, 0)
              wave_data == [d EXCEPT !.wave = w]
              existing_save ==
                    IF saved
                    THEN {GameSave("u1", wave_number, 2, 140, allowed_upgrades,
                                   OfferedUpgradeObjs(offered_upgrades), 7)}
                    ELSE {}
              args == [token |-> token, wave_data |-> wave_data,
                       existing_save |-> existing_save]
          IN  ret' = IF ValidateRaises(token, wave_data)
                     THEN CallRaised("complete_outcome", args)
                     ELSE CallResult("complete_outcome", args,
                              CompleteOutcome(token, wave_data, existing_save))
    /\ UNCHANGED callVars

NextCalls ==
    \/ CallReturns
    \/ CallValidateUpgrades
    \/ CallValidateDamage
    \/ CallValidateMovement
    \/ CallValidateKills
    \/ CallCompleteOutcome

SpecCalls == Init /\ [][NextCalls]_vars

(***************************************************************************)
(* select_upgrade (api/waves.py), one action per await, on the game save   *)
(* that a start_wave has left: nothing owned, the offers unpurchased.      *)
(***************************************************************************)

\* the offers of the wave window and the points of the save
OfferedInWindow ==
    {<<"bullet_damage_1">>, <<"bullet_damage_1", "bullet_damage_1">>,
     <<"bullet_damage_1", "explosive_bullets">>}
SavedPoints == {0, 5}

InitSelect ==
    /\ runs = {}
    /\ player_stats = [u \in Users |-> PlayerStats]
    /\ uuid = 0
    /\ clock = 0
    /\ pc = [p \in Procs |-> "idle"]
    /\ req = [p \in Procs |-> Idle]
    /\ loc = [p \in Procs |-> NoLocals]
    /\ ret = NoResponse
    /\ ended = [r \in RunIds |-> <<>>]
    /\ nreq = 0
    /\ tokens = {}
    /\ flagged_waves = <<>>
    /\ \E offered \in OfferedInWindow, points \in SavedPoints :
          game_saves =
            {[GameSave("u1", 1, 0, 0, <<>>, OfferedUpgradeObjs(offered), 7)
                EXCEPT !.current_points = points]}
    /\ nonce = 0
    /\ issued = {}

SelectUpgradeRequest(user, upgrade_id) ==
    [op |-> "select_upgrade", user |-> user, upgrade_id |-> upgrade_id]

\* the answer of select_upgrade: 200 with the lists it wrote, or an
\* HTTPException
SelectResponse(request, status_code, detail, current_upgrades, current_points) ==
    [req |-> request, status_code |-> status_code, detail |-> detail,
     current_upgrades |-> current_upgrades, current_points |-> current_points]

SelectError(request, status_code, detail) ==
    SelectResponse(request, status_code, detail, <<>>, 0)

\* the upgrade ids that a select_upgrade request names
SelectIds == {"bullet_damage_1", "explosive_bullets", "laser_damage_1"}

\* next((i for i, u in enumerate(offered_upgrades)
\*       if u.id == upgrade_id and not u.purchased), None), None being 0
FirstUnpurchased(offered_upgrades, upgrade_id) ==
    LET open == {i \in DOMAIN offered_upgrades :
                    /\ offered_upgrades[i].id = upgrade_id
                    /\ ~offered_upgrades[i].purchased}
    IN  IF open = {} THEN 0
        ELSE CHOOSE i \in open : \A j \in open : i <= j

\* select_upgrade, first await: find_by_user_id, and the checks on what it
\* returned
SelectFind(p, user, upgrade_id) ==
    /\ Accept(p)
    /\ LET request == SelectUpgradeRequest(user, upgrade_id)
           found == FindSave(game_saves, user)
       IN  IF found = {}
           THEN Return(p, SelectError(request, 404, "No active game found"))
           ELSE \E game_save \in found :
                LET upgrade_index ==
                        FirstUnpurchased(game_save.offered_upgrades, upgrade_id)
                IN  IF upgrade_id \notin Range(OfferedIds(game_save.offered_upgrades))
                    THEN Return(p, SelectError(request, 400,
                                      "Upgrade was not offered this wave"))
                    ELSE IF upgrade_index = 0
                    THEN Return(p, SelectError(request, 400,
                                      "Upgrade already purchased or not offered"))
                    ELSE IF upgrade_id \notin DOMAIN UPGRADES
                    THEN Return(p, SelectError(request, 400, "Invalid upgrade ID"))
                    ELSE IF ~can_apply_upgrade(upgrade_id,
                                               game_save.current_upgrades, "bullet")
                    THEN Return(p, SelectError(request, 400,
                                      "Cannot apply this upgrade"))
                    ELSE Goto(p, "su_update", request,
                              [game_save |-> game_save,
                               upgrade_index |-> upgrade_index])
    /\ UNCHANGED <<player_stats, clock, runVars, waveVars>>

\* select_upgrade, second await: update_by_id sets the three fields to the
\* values computed from the save that was read
SelectUpdate(p) ==
    /\ pc[p] = "su_update"
    /\ LET game_save == loc[p].game_save
           updated_offered_upgrades ==
                [i \in DOMAIN game_save.offered_upgrades |->
                    IF i = loc[p].upgrade_index
                    THEN OfferedUpgrade(game_save.offered_upgrades[i].id, TRUE)
                    ELSE game_save.offered_upgrades[i]]
           updated_upgrades ==
                game_save.current_upgrades \o <<req[p].upgrade_id>>
           upgrade_cost == UPGRADES[req[p].upgrade_id].cost
           updated_points ==
                IF game_save.current_points - upgrade_cost > 0
                THEN game_save.current_points - upgrade_cost ELSE 0
       IN  /\ game_saves' =
                {IF s.user_id = game_save.user_id
                 THEN [s EXCEPT !.current_upgrades = updated_upgrades,
                                !.offered_upgrades = updated_offered_upgrades,
                                !.current_points = updated_points]
                 ELSE s : s \in game_saves}
           /\ Return(p, SelectResponse(req[p], 200, "applied",
                                       updated_upgrades, updated_points))
    /\ UNCHANGED <<nreq, player_stats, clock, runVars, tokens, flagged_waves,
                   nonce, issued>>

NextSelect ==
    \E p \in Procs :
        \/ \E u \in Users, id \in SelectIds : SelectFind(p, u, id)
        \/ SelectUpdate(p)

SpecSelect == InitSelect /\ [][NextSelect]_vars

\* the save of the user
SaveOf(coll, user) == CHOOSE s \in FindSave(coll, user) : TRUE

\* C30: for any interleaving of select_upgrade requests of one user in one
\* wave window, each offered instance is marked purchased at most once: the
\* write of a select_upgrade marks an instance that the save does not hold
\* as purchased, and no write takes a purchased mark away; and an upgrade id
\* is in the save's current_upgrades at most as many times as it has
\* instances in offered_upgrades.
C30_DoubleSpendGate ==
    [][\A p \in Procs :
            (pc[p] = "su_update" /\ pc'[p] # "su_update") =>
                LET before == SaveOf(game_saves, req[p].user)
                    after == SaveOf(game_saves', req[p].user)
                    id == req[p].upgrade_id
                IN  /\ ~before.offered_upgrades[loc[p].upgrade_index].purchased
                    /\ \A i \in DOMAIN before.offered_upgrades :
                            before.offered_upgrades[i].purchased =>
                                after.offered_upgrades[i].purchased
                    /\ Count(after.current_upgrades, id) <=
                            Cardinality({i \in DOMAIN after.offered_upgrades :
                                            after.offered_upgrades[i].id = id})
      ]_vars

\* C34: a complete_wave that passes the three token checks marks its token
\* used before it returns, whatever its flags: from the checks it goes to the
\* marking, the marking sets used and used_at, and when the handler returns
\* its token is used.
C34_MarkedBeforeReturn ==
    [][\A p \in Procs :
         /\ \A u \in Users, t \in TokenStrings, d \in WaveInputs :
                (/\ CompleteFind(p, u, t, d)
                 /\ \E k \in tokens : k.token = t /\ ~k.used /\ k.user_id = u)
                    => /\ pc'[p] = "cw_mark"
                       /\ loc'[p].token.token = t
         /\ (pc[p] = "cw_mark" /\ pc'[p] # pc[p])
                => /\ pc'[p] # "idle"
                   /\ \A k \in tokens' :
                        k.token = loc[p].token.token
                            => k.used /\ k.used_at # <<>>
         /\ (pc[p] \in {"cw_flag", "cw_find_stats"} /\ pc'[p] = "idle")
                => \A k \in tokens' :
                        k.token = loc[p].token.token => k.used
      ]_vars

\* C36: start_wave only inserts one new unused token of its user and wave:
\* no step of it changes or removes a token that was there, so a token that
\* was unused before is the same unused, valid token afterwards.
C36_OnlyInsertsToken ==
    [][\A p \in Procs :
         /\ ((pc[p] = "idle" /\ pc'[p] # "idle" /\ req'[p].op = "start_wave")
                \/ (pc[p] \in {"sw_offer", "sw_save"} /\ pc'[p] # pc[p]))
                => tokens' = tokens
         /\ (pc[p] = "sw_token" /\ pc'[p] # pc[p])
                => /\ \A k \in tokens : k \in tokens'
                   /\ \A k \in tokens : ~k.used => is_valid(k)
                   /\ Cardinality(tokens') = Cardinality(tokens) + 1
                   /\ \A k \in tokens' \ tokens :
                        /\ ~k.used
                        /\ k.used_at = <<>>
                        /\ k.user_id = req[p].user
                        /\ k.wave_number = req[p].wave_number
      ]_vars

\* two tokens of one user and wave, the later one unused, and the earlier
\* one consumed by a complete_wave that arrived after the later one was
\* issued (it was marked used after the later one's expires_at, and time
\* passes only between requests)
C36_Witness ==
    \E k1, k2 \in tokens :
        /\ k1.user_id = k2.user_id
        /\ k1.wave_number = k2.wave_number
        /\ k1.token < k2.token
        /\ k1.used
        /\ ~k2.used
        /\ k1.used_at[1] > k2.expires_at

(***************************************************************************)
(* start_wave and select_upgrade on a game save that holds offers.         *)
(***************************************************************************)

NextReroll ==
    \E p \in Procs :
        \/ \E u \in Owners, w \in WaveNumbers, s \in Seeds :
                StartWaveFind(p, u, w, s)
        \/ StartWaveOffer(p)
        \/ StartWaveToken(p)
        \/ \E u \in Owners, id \in SelectIds : SelectFind(p, u, id)
        \/ SelectUpdate(p)

SpecReroll == InitSelect /\ [][NextReroll]_vars

DeathFrozenState(frozen_at, waves_completed, enemies_killed, time_survived, points_at_death) ==
    [frozen_at |-> frozen_at, waves_completed |-> waves_completed,
     enemies_killed |-> enemies_killed, time_survived |-> time_survived,
     points_at_death |-> points_at_death]

\* a GameSave document with the two death fields at their defaults;
\* death_state, an Optional[DeathFrozenState], is the set of the states it
\* holds: none, or one
LegacySave(user, current_wave, current_kills, seed) ==
    GameSave(user, current_wave, current_kills, 0, <<>>, <<>>, seed)
        @@ [death_state |-> {}, game_over |-> FALSE]

\* one user has started a game, the other has no save
InitSaves ==
    /\ runs = {}
    /\ player_stats = [u \in Users |-> PlayerStats]
    /\ uuid = 0
    /\ clock = 0
    /\ pc = [p \in Procs |-> "idle"]
    /\ req = [p \in Procs |-> Idle]
    /\ loc = [p \in Procs |-> NoLocals]
    /\ ret = NoResponse
    /\ ended = [r \in RunIds |-> <<>>]
    /\ nreq = 0
    /\ tokens = {}
    /\ flagged_waves = <<>>
    /\ game_saves = {LegacySave("u1", 1, 0, 7)}
    /\ nonce = 0
    /\ issued = {}

\* the bodies of the requests
DeathStateSaveRequests ==
    {DeathFrozenState(1000, 1, 3, 10, 0), DeathFrozenState(2000, 2, 5, 20, 5)}

GameStatsSaveRequests ==
    {[current_wave |-> 2, current_kills |-> 4, seed |-> 7],
     [current_wave |-> 3, current_kills |-> 9, seed |-> 7]}

GameSaveCreates ==
    {[current_wave |-> 2, current_points |-> 5, seed |-> 7,
      current_kills |-> 6, current_upgrades |-> <<>>,
      offered_upgrades |-> <<>>, game_over |-> FALSE],
     [current_wave |-> 1, current_points |-> 0, seed |-> 7,
      current_kills |-> 0, current_upgrades |-> <<"bullet_damage_1">>,
      offered_upgrades |-> OfferedUpgradeObjs(<<"explosive_bullets">>),
      game_over |-> TRUE]}

SaveRequest(op, user, data) == [op |-> op, user |-> user, data |-> data]

\* the answer of a save endpoint: 200, or the status of the HTTPException
SaveResponse(request, status_code, detail) ==
    [req |-> request, status_code |-> status_code, detail |-> detail]

\* repo.update_by_id(save.id, update_data): $set of the given fields on the
\* document of that id, whatever it holds by now
UpdateSave(coll, user, update_data) ==
    {IF s.user_id = user THEN update_data @@ s ELSE s : s \in coll}

\* save_death_state, first await: find_by_user_id, 404, and the guard
SaveDeathFind(p, user, data) ==
    /\ Accept(p)
    /\ LET request == SaveRequest("save_death_state", user, data)
           found == FindSave(game_saves, user)
       IN  IF found = {}
           THEN Return(p, SaveResponse(request, 404,
                             "No save found - start a game first"))
           ELSE \E save \in found :
                IF save.death_state # {}
                THEN Return(p, SaveResponse(request, 409,
                         "Death state already frozen - cannot overwrite"))
                ELSE Goto(p, "sd_update", request, [save |-> save])
    /\ UNCHANGED <<player_stats, clock, runVars, waveVars>>

\* save_death_state, second await: update_by_id sets death_state and
\* game_over
SaveDeathUpdate(p) ==
    /\ pc[p] = "sd_update"
    /\ game_saves' = UpdateSave(game_saves, loc[p].save.user_id,
                        [death_state |-> {req[p].data}, game_over |-> TRUE])
    /\ Return(p, SaveResponse(req[p], 200, "Death state saved"))
    /\ UNCHANGED <<nreq, player_stats, clock, runVars, tokens, flagged_waves,
                   nonce, issued>>

\* save_game_stats, first await: find_by_user_id, 404, and the guard
SaveStatsFind(p, user, data) ==
    /\ Accept(p)
    /\ LET request == SaveRequest("save_game_stats", user, data)
           found == FindSave(game_saves, user)
       IN  IF found = {}
           THEN Return(p, SaveResponse(request, 404,
                             "No save found - start a game first"))
           ELSE \E save \in found :
                IF save.death_state # {} \/ save.game_over
                THEN Return(p, SaveResponse(request, 403,
                             "Cannot update game stats after death"))
                ELSE Goto(p, "gs_update", request, [save |-> save])
    /\ UNCHANGED <<player_stats, clock, runVars, waveVars>>

\* save_game_stats, second await: update_by_id sets the game stats
SaveStatsUpdate(p) ==
    /\ pc[p] = "gs_update"
    /\ game_saves' = UpdateSave(game_saves, loc[p].save.user_id,
                        [current_wave |-> req[p].data.current_wave,
                         current_kills |-> req[p].data.current_kills,
                         seed |-> req[p].data.seed])
    /\ Return(p, SaveResponse(req[p], 200, "saved"))
    /\ UNCHANGED <<nreq, player_stats, clock, runVars, tokens, flagged_waves,
                   nonce, issued>>

\* create_or_update_save (and autosave, which calls it), first await:
\* find_by_user_id
CreateOrUpdateFind(p, user, save_data) ==
    /\ Accept(p)
    /\ Goto(p, IF FindSave(game_saves, user) # {} THEN "cu_update"
               ELSE "cu_create",
            SaveRequest("create_or_update_save", user, save_data), NoLocals)
    /\ UNCHANGED <<player_stats, clock, runVars, waveVars>>

\* create_or_update_save, second await when a save was found: update_by_id
\* with the submitted fields, offered_upgrades only when it is not empty
CreateOrUpdateUpdate(p) ==
    /\ pc[p] = "cu_update"
    /\ LET save_data == req[p].data
           update_data ==
                [current_wave |-> save_data.current_wave,
                 current_points |-> save_data.current_points,
                 seed |-> save_data.seed,
                 current_kills |-> save_data.current_kills,
                 current_upgrades |-> save_data.current_upgrades,
                 game_over |-> save_data.game_over]
       IN  game_saves' = UpdateSave(game_saves, req[p].user,
                IF save_data.offered_upgrades # <<>>
                THEN [offered_upgrades |-> save_data.offered_upgrades]
                        @@ update_data
                ELSE update_data)
    /\ Return(p, SaveResponse(req[p], 200, "saved"))
    /\ UNCHANGED <<nreq, player_stats, clock, runVars, tokens, flagged_waves,
                   nonce, issued>>

\* create_or_update_save, second await when no save was found: create, which
\* the unique index on user_id refuses when a save is there by now
CreateOrUpdateCreate(p) ==
    /\ pc[p] = "cu_create"
    /\ LET save_data == req[p].data
       IN  IF FindSave(game_saves, req[p].user) # {}
           THEN /\ Return(p, SaveResponse(req[p], 500, "DuplicateKeyError"))
                /\ UNCHANGED game_saves
           ELSE /\ game_saves' = game_saves \cup
                    {[current_points |-> save_data.current_points,
                      current_upgrades |-> save_data.current_upgrades,
                      offered_upgrades |-> save_data.offered_upgrades,
                      game_over |-> save_data.game_over]
                     @@ LegacySave(req[p].user, save_data.current_wave,
                                   save_data.current_kills, save_data.seed)}
                /\ Return(p, SaveResponse(req[p], 200, "saved"))
    /\ UNCHANGED <<nreq, player_stats, clock, runVars, tokens, flagged_waves,
                   nonce, issued>>

NextSaves ==
    \E p \in Procs :
        \/ \E u \in Users, d \in DeathStateSaveRequests : SaveDeathFind(p, u, d)
        \/ SaveDeathUpdate(p)
        \/ \E u \in Users, d \in GameStatsSaveRequests : SaveStatsFind(p, u, d)
        \/ SaveStatsUpdate(p)
        \/ \E u \in Users, d \in GameSaveCreates : CreateOrUpdateFind(p, u, d)
        \/ CreateOrUpdateUpdate(p)
        \/ CreateOrUpdateCreate(p)

SpecSaves == InitSaves /\ [][NextSaves]_vars

\* C32: the death state of a game save is set only once: a save_death_state
\* request is accepted only while the save holds no death state, and a stored
\* death state never changes.
C32_DeathStateOnce ==
    [][\A s \in game_saves :
            s.death_state # {} =>
                /\ \E t \in game_saves' : /\ t.user_id = s.user_id
                                          /\ t.death_state = s.death_state
                /\ ~(/\ ret' # NoResponse
                     /\ ret'.req.op = "save_death_state"
                     /\ ret'.req.user = s.user_id
                     /\ ret'.status_code = 200)
      ]_vars

\* C33: once a game save holds a death state, its current_wave and
\* current_kills keep their values.
C33_StatsFrozen ==
    [][\A s \in game_saves :
            s.death_state # {} =>
                \E t \in game_saves' : /\ t.user_id = s.user_id
                                       /\ t.current_wave = s.current_wave
                                       /\ t.current_kills = s.current_kills
      ]_vars

====
